---- MODULE Spec2Model ----
(***************************************************************************)
(* Verification model of the power-link connection engine:                 *)
(* Connector (topology, hooks, save/load), SequentialHook/PreventableHook, *)
(* PluginManager and the reference plugins.                                *)
(***************************************************************************)
EXTENDS Integers, Sequences, FiniteSets, TLC

(* ------------------------------ bounds --------------------------------- *)
MaxNodes == 2
MaxConns == 2
MaxTaps == 2
MaxSaved == 2
MaxTempLines == 2

\* a node id is kept as its list of '-'-separated tokens; these ids have no '-'
NodeIds == {<<"A">>, <<"B">>}
Sides == {"left", "right"}
NoDot == "none"

HookNames == {"beforeNodeRegister", "afterNodeRegister", "beforeNodeRemove", "afterNodeRemove",
              "beforeConnect", "afterConnect", "beforeDisconnect", "afterDisconnect",
              "save", "load", "onRenderConnection", "onRenderDot",
              "beforeViewChange", "afterViewChange",
              "beforeDragStart", "onDrag", "afterDragEnd"}

VARIABLES nodes, connections, hooks, plugins, hookUnsubscribers, now, last,
          viewport, positions, dragHandler, connectionHandler, snapHandler
\* the state of the pointer machinery, and of the view and pointer machinery
pointer == <<positions, dragHandler, connectionHandler, snapHandler>>
ui == <<viewport, pointer>>
vars == <<nodes, connections, hooks, plugins, hookUnsubscribers, now, last, ui>>

(* ------------------------------ helpers -------------------------------- *)
Range(s) == {s[i] : i \in 1..Len(s)}
Contains(s, x) == \E i \in 1..Len(s) : s[i] = x

\* Array.prototype.splice(index, 1)
RemoveAt(s, i) == [j \in 1..(Len(s) - 1) |-> IF j < i THEN s[j] ELSE s[j + 1]]

\* Array.prototype.findIndex / indexOf: the smallest of the indexes that satisfy
\* the test, 0 when there is none
FirstIndex(found) ==
  IF found = {} THEN 0 ELSE CHOOSE i \in found : \A j \in found : i <= j

\* one entry of the observable log of a call; s names the node or connection
\* the entry is about by its id (<<>> when there is none)
Ev(k, h, i, owner, res, s) == [k |-> k, h |-> h, i |-> i, owner |-> owner, res |-> res, s |-> s]

(* ------------------------- Hook.ts: hook execution ---------------------- *)
\* the values undefined and false where a hook threads them on as data
UndefinedValue == <<"undefined">>
FalseValue == <<"false">>

\* What a registered callback returns for the data it is handed.
\* kind: "value" (returns data), "false" (returns false), "throw" (throws)
CallbackResult(cb, data) ==
  CASE cb.beh = "veto" -> [kind |-> "false", data |-> data]
    [] cb.beh = "throw" ->
         \* the wrapper of registerShorthandHooks catches and returns the data
         IF cb.via = "shorthand" THEN [kind |-> "value", data |-> data]
         ELSE [kind |-> "throw", data |-> data]
    \* a callback that returns its input with its own mark added
    [] cb.beh = "markX" -> [kind |-> "value", data |-> Append(data, "x")]
    [] cb.beh = "markY" -> [kind |-> "value", data |-> Append(data, "y")]
    \* a callback without a return statement: the wrapper of
    \* registerShorthandHooks hands back the data, a tapped callback undefined
    [] cb.beh = "undefined" ->
         IF cb.via = "shorthand" THEN [kind |-> "value", data |-> data]
         ELSE [kind |-> "value", data |-> UndefinedValue]
    \* an afterViewChange callback that reports the view as not translated
    [] cb.beh = "toOrigin" ->
         [kind |-> "value", data |-> [data EXCEPT !.translateX = <<0, 1>>, !.translateY = <<0, 1>>]]
    [] cb.beh = "toRight" -> [kind |-> "value", data |-> [data EXCEPT !.toDot = "right"]]
    [] cb.beh = "vetoSelf" ->
         IF data.fromId = data.toId THEN [kind |-> "false", data |-> data]
         ELSE [kind |-> "value", data |-> data]
    [] cb.beh = "vetoLeft" ->
         IF data.fromDot = "left" THEN [kind |-> "false", data |-> data]
         ELSE [kind |-> "value", data |-> data]
    [] OTHER -> [kind |-> "value", data |-> data]

RECURSIVE PreventableLoopStopsAtThrow(_, _, _, _, _, _)
\* a loop that a throwing callback ends
PreventableLoopStopsAtThrow(h, cbs, i, data, subj, tr) ==
  IF i > Len(cbs) THEN [data |-> data, prevented |-> FALSE, trace |-> tr]
  ELSE LET r == CallbackResult(cbs[i], data)
           tr2 == Append(tr, Ev("cb", h, i, cbs[i].owner, r.kind, subj))
       IN IF r.kind = "false" THEN [data |-> data, prevented |-> TRUE, trace |-> tr2]
          ELSE IF r.kind = "throw" THEN [data |-> data, prevented |-> FALSE, trace |-> tr2]
          ELSE PreventableLoopStopsAtThrow(h, cbs, i + 1, r.data, subj, tr2)

RECURSIVE PreventableLoop(_, _, _, _, _, _)
PreventableLoop(h, cbs, i, data, subj, tr) ==
  IF i > Len(cbs) THEN [data |-> data, prevented |-> FALSE, trace |-> tr]
  ELSE LET r == CallbackResult(cbs[i], data)
           tr2 == Append(tr, Ev("cb", h, i, cbs[i].owner, r.kind, subj))
       IN IF r.kind = "false" THEN [data |-> data, prevented |-> TRUE, trace |-> tr2]
          ELSE IF r.kind = "throw" THEN PreventableLoop(h, cbs, i + 1, data, subj, tr2)
          ELSE PreventableLoop(h, cbs, i + 1, r.data, subj, tr2)

\* execute that reports the operation as never prevented
PreventableExecuteNeverPrevented(h, data, subj, tr) ==
  [PreventableLoop(h, hooks[h], 1, data, subj, Append(tr, Ev("exec", h, 0, "", "", subj)))
     EXCEPT !.prevented = FALSE]

\* PreventableHook.execute
PreventableExecute(h, data, subj, tr) ==
  PreventableLoop(h, hooks[h], 1, data, subj, Append(tr, Ev("exec", h, 0, "", "", subj)))

\* a loop that hands the caller's data to the last callback only
SequentialLoopLastOnly(h, cbs, i, data, subj, tr) ==
  IF cbs = <<>> THEN [data |-> data, trace |-> tr]
  ELSE [data |-> CallbackResult(cbs[Len(cbs)], data).data,
        trace |-> tr \o [k \in 1..Len(cbs) |->
                           Ev("cb", h, k, cbs[k].owner, CallbackResult(cbs[k], data).kind, subj)]]

RECURSIVE SequentialLoop(_, _, _, _, _, _)
SequentialLoop(h, cbs, i, data, subj, tr) ==
  IF i > Len(cbs) THEN [data |-> data, trace |-> tr]
  ELSE LET r == CallbackResult(cbs[i], data)
           tr2 == Append(tr, Ev("cb", h, i, cbs[i].owner, r.kind, subj))
       IN IF r.kind = "throw" THEN SequentialLoop(h, cbs, i + 1, data, subj, tr2)
          ELSE IF r.kind = "false" THEN SequentialLoop(h, cbs, i + 1, FalseValue, subj, tr2)
          ELSE SequentialLoop(h, cbs, i + 1, r.data, subj, tr2)

\* execute that runs nothing
SequentialExecuteNothing(h, data, subj, tr) == [data |-> data, trace |-> tr]

\* SequentialHook.execute
SequentialExecute(h, data, subj, tr) ==
  SequentialLoop(h, hooks[h], 1, data, subj, Append(tr, Ev("exec", h, 0, "", "", subj)))

(* --------------------------- model objects ------------------------------ *)
\* a getDot that finds a dot on whichever side it is asked for
getDotAnySide(node, side) == side

\* NodeModel.getDot and friends; a dot is named by its side
getDot(node, side) == IF Contains(node.dots, side) THEN side ELSE NoDot
getLeftDot(node) == getDot(node, "left")
\* a getRightDot that looks on the left
getRightDotOnTheLeft(node) == getDot(node, "left")
getRightDot(node) == getDot(node, "right")
getFirstDot(node) == IF node.dots = <<>> THEN NoDot ELSE node.dots[1]

\* NodeModel.addConnection / removeConnection, applied to the node object uid
\* (a node object that is no longer in the node list is reachable only through
\* the connections that still reference it; its own list is not observable)
addConnection(ns, uid, c) ==
  [i \in 1..Len(ns) |->
     IF ns[i].uid = uid /\ ~Contains(ns[i].conns, c)
     THEN [ns[i] EXCEPT !.conns = Append(@, c)] ELSE ns[i]]

removeConnection(ns, uid, c) ==
  [i \in 1..Len(ns) |->
     IF ns[i].uid = uid /\ Contains(ns[i].conns, c)
     THEN [ns[i] EXCEPT !.conns =
            RemoveAt(@, FirstIndex({k \in 1..Len(ns[i].conns) : ns[i].conns[k] = c}))]
     ELSE ns[i]]

\* a comparison that finds no Connection equivalent
matchesNothing(conn, fromNodeId, toNodeId, fromDotPosition, toDotPosition) == FALSE

\* matches without the reversed comparison
matchesSameDirection(conn, fromNodeId, toNodeId, fromDotPosition, toDotPosition) ==
  conn.fromId = fromNodeId /\ conn.toId = toNodeId
  /\ conn.fromDot = fromDotPosition /\ conn.toDot = toDotPosition

\* ConnectionModel.matches
matches(conn, fromNodeId, toNodeId, fromDotPosition, toDotPosition) ==
  \/ (conn.fromId = fromNodeId /\ conn.toId = toNodeId
      /\ conn.fromDot = fromDotPosition /\ conn.toDot = toDotPosition)
  \/ (conn.fromId = toNodeId /\ conn.toId = fromNodeId
      /\ conn.fromDot = toDotPosition /\ conn.toDot = fromDotPosition)

TimeToken(t) == <<"t0", "t1", "t2", "t3", "t4">>[t + 1]

\* ConnectionModel.generateId: `${from}-${to}-${fromDot}-${toDot}-${Date.now()}`
generateId(fromNodeId, toNodeId, fromDotPosition, toDotPosition) ==
  fromNodeId \o toNodeId \o <<fromDotPosition, toDotPosition, TimeToken(now)>>

\* identity of a freshly constructed object: the smallest one not reachable
FreshNodeUid(ns, cs) ==
  LET used == {ns[i].uid : i \in 1..Len(ns)} \cup {cs[i].fromNode : i \in 1..Len(cs)}
                \cup {cs[i].toNode : i \in 1..Len(cs)}
  IN CHOOSE u \in 1..(Cardinality(used) + 1) : u \notin used /\ \A v \in 1..(u - 1) : v \in used

FreshConnUid(cs) ==
  LET used == {cs[i].uid : i \in 1..Len(cs)}
  IN CHOOSE u \in 1..(Cardinality(used) + 1) : u \notin used /\ \A v \in 1..(u - 1) : v \in used

(* ------------------- Connector: topology operations --------------------- *)
\* The operations are functions of the engine's world W = [nodes, conns, trace]
\* (this.nodes, this.connections and the log of what the call did).
NodeOf(ns, uid) == ns[FirstIndex({k \in 1..Len(ns) : ns[k].uid = uid})]
Log(W, e) == [W EXCEPT !.trace = Append(@, e)]

\* a notification that ignores options.silent
notifyAlways(tr, silent, callback, event, id) ==
  tr \o <<Ev("host", callback, 0, "", "", id), Ev("emit", event, 0, "", "", id)>>

\* a notification made ahead of everything else the call does
notifyFirst(tr, silent, callback, event, id) ==
  IF silent THEN tr
  ELSE <<Ev("host", callback, 0, "", "", id), Ev("emit", event, 0, "", "", id)>> \o tr

\* if (!options.silent) { this.on...Callback(info); this.emit(event, info); }
notify(tr, silent, callback, event, id) ==
  IF silent THEN tr
  ELSE tr \o <<Ev("host", callback, 0, "", "", id), Ev("emit", event, 0, "", "", id)>>

\* Connector.createConnection
createConnection(W, fromNode, toNode, fromDotArg, toDotArg, silent) ==
  LET fn == NodeOf(W.nodes, fromNode)
      tn == NodeOf(W.nodes, toNode)
      fromDot == IF fromDotArg # NoDot THEN fromDotArg
                 ELSE IF getRightDot(fn) # NoDot THEN getRightDot(fn)
                 ELSE IF getLeftDot(fn) # NoDot THEN getLeftDot(fn)
                 ELSE getFirstDot(fn)
      toDot == IF toDotArg # NoDot THEN toDotArg
               ELSE IF getLeftDot(tn) # NoDot THEN getLeftDot(tn)
               ELSE IF getRightDot(tn) # NoDot THEN getRightDot(tn)
               ELSE getFirstDot(tn)
  IN IF fromDot = NoDot \/ toDot = NoDot
     THEN [w |-> Log(W, Ev("warn", "missingDot", 0, "", "", <<>>)), ret |-> <<>>]
     ELSE
       LET hookParams == [fromNode |-> fromNode, toNode |-> toNode, fromId |-> fn.id,
                          toId |-> tn.id, fromDot |-> fromDot, toDot |-> toDot]
           r == PreventableExecute("beforeConnect", hookParams, <<>>, W.trace)
           p == r.data
       IN IF r.prevented
          THEN [w |-> [W EXCEPT !.trace = Append(r.trace, Ev("log", "prevented", 0, "", "", <<>>))],
                ret |-> <<>>]
          ELSE IF \E i \in 1..Len(W.conns) :
                     matches(W.conns[i], p.fromId, p.toId, p.fromDot, p.toDot)
          THEN [w |-> [W EXCEPT !.trace = Append(r.trace, Ev("warn", "duplicate", 0, "", "", <<>>))],
                ret |-> <<>>]
          ELSE
            LET connection == [uid |-> FreshConnUid(W.conns),
                               id |-> generateId(p.fromId, p.toId, p.fromDot, p.toDot),
                               fromNode |-> p.fromNode, toNode |-> p.toNode,
                               fromId |-> p.fromId, toId |-> p.toId,
                               fromDot |-> p.fromDot, toDot |-> p.toDot]
                cs2 == Append(W.conns, connection)
                ns2 == addConnection(addConnection(W.nodes, p.fromNode, connection.uid),
                                     p.toNode, connection.uid)
                t1 == Append(r.trace, Ev("insert", "", 0, "", "", connection.id))
                t2 == SequentialExecute("onRenderConnection", connection, connection.id, t1).trace
                t3 == SequentialExecute("afterConnect", connection, connection.id, t2).trace
                t4 == notify(t3, silent, "onConnect", "connect", connection.id)
            IN [w |-> [nodes |-> ns2, conns |-> cs2, trace |-> t4], ret |-> connection.id]

\* a connect that takes false from an afterConnect callback as a veto
connectUndoneByCallback(W, fromNodeId, toNodeId, fromDotPosition, toDotPosition, silent) ==
  LET fi == FirstIndex({k \in 1..Len(W.nodes) : W.nodes[k].id = fromNodeId})
      ti == FirstIndex({k \in 1..Len(W.nodes) : W.nodes[k].id = toNodeId})
  IN IF fi = 0 \/ ti = 0
     THEN [w |-> Log(W, Ev("warn", "missingNode", 0, "", "", <<>>)), ret |-> <<>>]
     ELSE LET r == createConnection(W, W.nodes[fi].uid, W.nodes[ti].uid,
                                    getDot(W.nodes[fi], fromDotPosition),
                                    getDot(W.nodes[ti], toDotPosition), silent)
          IN IF \E k \in 1..Len(r.w.trace) :
                  /\ r.w.trace[k].k = "cb" /\ r.w.trace[k].h = "afterConnect"
                  /\ r.w.trace[k].res = "false"
             THEN [w |-> [W EXCEPT !.trace = r.w.trace], ret |-> <<>>]
             ELSE r

\* Connector.connect
connect(W, fromNodeId, toNodeId, fromDotPosition, toDotPosition, silent) ==
  LET fi == FirstIndex({k \in 1..Len(W.nodes) : W.nodes[k].id = fromNodeId})
      ti == FirstIndex({k \in 1..Len(W.nodes) : W.nodes[k].id = toNodeId})
  IN IF fi = 0 \/ ti = 0
     THEN [w |-> Log(W, Ev("warn", "missingNode", 0, "", "", <<>>)), ret |-> <<>>]
     ELSE LET fromDot == IF fromDotPosition # NoDot
                         THEN getDot(W.nodes[fi], fromDotPosition) ELSE NoDot
              toDot == IF toDotPosition # NoDot
                       THEN getDot(W.nodes[ti], toDotPosition) ELSE NoDot
          IN createConnection(W, W.nodes[fi].uid, W.nodes[ti].uid, fromDot, toDot, silent)

\* Connector.disconnect(connectionId, options), the branch with an id
disconnectOne(W, connectionId, silent) ==
  LET index == FirstIndex({k \in 1..Len(W.conns) : W.conns[k].id = connectionId})
  IN IF index = 0 THEN W
     ELSE
       LET connection == W.conns[index]
           r == PreventableExecute("beforeDisconnect", connection, connection.id, W.trace)
       IN IF r.prevented
          THEN [W EXCEPT !.trace = Append(r.trace, Ev("log", "prevented", 0, "", "", connection.id))]
          ELSE
            LET ns2 == removeConnection(removeConnection(W.nodes, connection.fromNode, connection.uid),
                                        connection.toNode, connection.uid)
                cs2 == RemoveAt(W.conns, index)
                t1 == Append(r.trace, Ev("remove", "", 0, "", "", connection.id))
                t2 == SequentialExecute("afterDisconnect", connection, connection.id, t1).trace
                t3 == notify(t2, silent, "onDisconnect", "disconnect", connection.id)
            IN [nodes |-> ns2, conns |-> cs2, trace |-> t3]

RECURSIVE disconnectEach(_, _, _)
\* list.forEach(conn => this.disconnect(conn.id, options)) over a snapshot of connections
disconnectEach(W, snapshot, silent) ==
  IF snapshot = <<>> THEN W
  ELSE disconnectEach(disconnectOne(W, Head(snapshot).id, silent), Tail(snapshot), silent)

\* a sweep that stops after the first Connection
disconnectFirst(W, silent) ==
  disconnectEach(W, IF W.conns = <<>> THEN <<>> ELSE <<Head(W.conns)>>, silent)

\* Connector.disconnect(undefined, options), the branch without an id
disconnectAll(W, silent) == disconnectEach(W, W.conns, silent)

RECURSIVE Dedup(_, _)
\* [...new Set(dotPositions)]: first occurrences, in order
Dedup(s, seen) ==
  IF s = <<>> THEN <<>>
  ELSE IF Head(s) \in seen THEN Dedup(Tail(s), seen)
       ELSE <<Head(s)>> \o Dedup(Tail(s), seen \cup {Head(s)})

RECURSIVE ValidPositions(_)
\* the entries of an options.dotPositions array that are 'left' or 'right'
ValidPositions(arr) ==
  IF arr = <<>> THEN <<>>
  ELSE IF Head(arr) \in Sides THEN <<Head(arr)>> \o ValidPositions(Tail(arr))
       ELSE ValidPositions(Tail(arr))

\* the dot positions registerNode gives a node
DotPositionsOf(ns, opt) ==
  LET dotPositions ==
        IF opt.kind = "both" THEN <<"left", "right">>
        ELSE IF opt.kind = "array" THEN ValidPositions(opt.arr)
        ELSE IF Len(ns) = 0 THEN <<"right">> ELSE <<"left">>
      unique == Dedup(dotPositions, {})
  IN SubSeq(unique, 1, IF Len(unique) < 2 THEN Len(unique) ELSE 2)

\* a lookup that finds no node
findsNoNode(ns, id) == FALSE

\* this.nodes.find((n) => n.id === id), as a truth value
findsNode(ns, id) == \E i \in 1..Len(ns) : ns[i].id = id

\* Connector.registerNode
registerNode(W, id, opt) ==
  IF findsNode(W.nodes, id)
  THEN [w |-> Log(W, Ev("warn", "nodeExists", 0, "", "", <<>>)), ret |-> <<>>]
  ELSE
    LET r == PreventableExecute("beforeNodeRegister", [id |-> id, options |-> opt], id, W.trace)
    IN IF r.prevented
       THEN [w |-> [W EXCEPT !.trace = Append(r.trace, Ev("log", "prevented", 0, "", "", <<>>))],
             ret |-> <<>>]
       ELSE
         LET node == [uid |-> FreshNodeUid(W.nodes, W.conns), id |-> id,
                      dots |-> DotPositionsOf(W.nodes, opt), conns |-> <<>>]
             t1 == Append(r.trace, Ev("nodeAdded", "", 0, "", "", node.id))
             t2 == SequentialExecute("afterNodeRegister", node, node.id, t1).trace
             t3 == Append(t2, Ev("emit", "node:register", 0, "", "", node.id))
         IN [w |-> [nodes |-> Append(W.nodes, node), conns |-> W.conns, trace |-> t3],
             ret |-> node.id]

RECURSIVE ConnectionsOfNode(_, _)
\* this.connections.filter(conn => conn.fromNode.id === nodeId || conn.toNode.id === nodeId)
ConnectionsOfNode(cs, nodeId) ==
  IF cs = <<>> THEN <<>>
  ELSE IF Head(cs).fromId = nodeId \/ Head(cs).toId = nodeId
       THEN <<Head(cs)>> \o ConnectionsOfNode(Tail(cs), nodeId)
       ELSE ConnectionsOfNode(Tail(cs), nodeId)

\* Connector.unregisterNode
unregisterNode(W, nodeId) ==
  LET index == FirstIndex({k \in 1..Len(W.nodes) : W.nodes[k].id = nodeId})
  IN IF index = 0 THEN [w |-> W, ret |-> FALSE]
     ELSE
       LET node == W.nodes[index]
           r == PreventableExecute("beforeNodeRemove", node, node.id, W.trace)
       IN IF r.prevented
          THEN [w |-> [W EXCEPT !.trace = Append(r.trace, Ev("log", "prevented", 0, "", "", node.id))],
                ret |-> FALSE]
          ELSE
            LET nodeConnections == ConnectionsOfNode(W.conns, nodeId)
                W1 == disconnectEach([W EXCEPT !.trace = r.trace], nodeConnections, FALSE)
                ns2 == RemoveAt(W1.nodes, index)
                t1 == Append(W1.trace, Ev("nodeRemoved", "", 0, "", "", node.id))
                t2 == SequentialExecute("afterNodeRemove", nodeId, node.id, t1).trace
                t3 == Append(t2, Ev("emit", "node:unregister", 0, "", "", node.id))
            IN [w |-> [nodes |-> ns2, conns |-> W1.conns, trace |-> t3], ret |-> TRUE]

(* ----------------------- Connector: save / load ------------------------- *)
ConnectionStateOf(c) ==
  [id |-> c.id, fromNodeId |-> c.fromId, toNodeId |-> c.toId,
   fromDot |-> c.fromDot, toDot |-> c.toDot]

\* Connector.save
save(W) ==
  LET state == [version |-> "1.0.0",
                nodes |-> [i \in 1..Len(W.nodes) |->
                             [id |-> W.nodes[i].id, dotPositions |-> W.nodes[i].dots]],
                connections |-> [i \in 1..Len(W.conns) |-> ConnectionStateOf(W.conns[i])]]
      r == SequentialExecute("save", state, <<>>, W.trace)
  IN [w |-> [W EXCEPT !.trace = r.trace], ret |-> r.data]

RECURSIVE loadLoop(_, _, _, _)
\* the for loop of Connector.load over state.connections
loadLoop(W, saved, warnings, silent) ==
  IF saved = <<>> THEN [w |-> W, ret |-> warnings]
  ELSE
    LET connState == Head(saved)
        fi == FirstIndex({k \in 1..Len(W.nodes) : W.nodes[k].id = connState.fromNodeId})
        ti == FirstIndex({k \in 1..Len(W.nodes) : W.nodes[k].id = connState.toNodeId})
    IN IF fi = 0
       THEN loadLoop(W, Tail(saved),
                     Append(warnings, [kind |-> "noNode", node |-> connState.fromNodeId, dot |-> ""]),
                     silent)
       ELSE IF ti = 0
       THEN loadLoop(W, Tail(saved),
                     Append(warnings, [kind |-> "noNode", node |-> connState.toNodeId, dot |-> ""]),
                     silent)
       ELSE IF getDot(W.nodes[fi], connState.fromDot) = NoDot
       THEN loadLoop(W, Tail(saved),
                     Append(warnings, [kind |-> "noDot", node |-> connState.fromNodeId,
                                       dot |-> connState.fromDot]),
                     silent)
       ELSE IF getDot(W.nodes[ti], connState.toDot) = NoDot
       THEN loadLoop(W, Tail(saved),
                     Append(warnings, [kind |-> "noDot", node |-> connState.toNodeId,
                                       dot |-> connState.toDot]),
                     silent)
       ELSE loadLoop(createConnection(W, W.nodes[fi].uid, W.nodes[ti].uid,
                                      connState.fromDot, connState.toDot, silent).w,
                     Tail(saved), warnings, silent)

\* a load that does not clear the current connections
loadWithoutClearing(W, stateArg, silent) ==
  LET r == SequentialExecute("load", stateArg, <<>>, W.trace)
  IN loadLoop([W EXCEPT !.trace = r.trace], r.data.connections, <<>>, silent)

\* Connector.load
load(W, stateArg, silent) ==
  LET r == SequentialExecute("load", stateArg, <<>>, W.trace)
      state == r.data
      W1 == disconnectAll([W EXCEPT !.trace = r.trace], TRUE)
  IN loadLoop(W1, state.connections, <<>>, silent)

(* --------------------------- PluginManager ------------------------------ *)
\* The plugin objects handed to use(): the two reference plugins, which tap hooks
\* inside install, a plugin that defines a shorthand hook method, and two
\* plugins that declare dependencies; FailingPlugin has a shorthand method and
\* an install that taps a hook and then throws.
PluginNames == {"HistoryPlugin", "ValidationPlugin", "GuardPlugin",
                "DependentPlugin", "ChainedPlugin", "FailingPlugin"}

PluginDef(name) ==
  CASE name = "HistoryPlugin" ->
         [dependencies |-> {}, shorthand |-> <<>>,
          installTaps |-> <<[h |-> "afterConnect", beh |-> "pass"],
                            [h |-> "afterDisconnect", beh |-> "pass"]>>]
    [] name = "ValidationPlugin" ->
         [dependencies |-> {}, shorthand |-> <<>>,
          installTaps |-> <<[h |-> "beforeConnect", beh |-> "vetoSelf"]>>]
    [] name = "DependentPlugin" ->
         [dependencies |-> {"HistoryPlugin"},
          shorthand |-> <<[h |-> "afterConnect", beh |-> "pass"]>>,
          installTaps |-> <<>>]
    [] name = "ChainedPlugin" ->
         [dependencies |-> {"HistoryPlugin", "DependentPlugin"},
          shorthand |-> <<[h |-> "afterDisconnect", beh |-> "pass"]>>,
          installTaps |-> <<>>]
    [] name = "FailingPlugin" ->
         [dependencies |-> {},
          shorthand |-> <<[h |-> "afterConnect", beh |-> "pass"]>>,
          installTaps |-> <<[h |-> "beforeConnect", beh |-> "pass"]>>]
    [] OTHER ->
         [dependencies |-> {},
          shorthand |-> <<[h |-> "beforeDisconnect", beh |-> "vetoLeft"]>>,
          installTaps |-> <<>>]

\* plugin.install(context, options) throws after its taps
installThrows(name) == name = "FailingPlugin"

\* SequentialHook.tap / PreventableHook.tap
tap(hs, h, cb) == [hs EXCEPT ![h] = Append(@, cb)]

\* SequentialHook.untap / PreventableHook.untap
untap(hs, h, cb) ==
  LET index == FirstIndex({k \in 1..Len(hs[h]) : hs[h][k] = cb})
  IN IF index = 0 THEN hs ELSE [hs EXCEPT ![h] = RemoveAt(@, index)]

RECURSIVE tapAll(_, _, _, _)
tapAll(hs, taps, owner, via) ==
  IF taps = <<>> THEN hs
  ELSE tapAll(tap(hs, Head(taps).h, [owner |-> owner, beh |-> Head(taps).beh, via |-> via]),
              Tail(taps), owner, via)

RECURSIVE untapAll(_, _)
\* unsubscribers.forEach((unsub) => unsub())
untapAll(hs, unsubscribers) ==
  IF unsubscribers = <<>> THEN hs
  ELSE untapAll(untap(hs, Head(unsubscribers).h, Head(unsubscribers).cb), Tail(unsubscribers))

\* PluginManager.registerShorthandHooks: the unsubscribers it collects
shorthandUnsubscribers(name) ==
  LET sh == PluginDef(name).shorthand
  IN [i \in 1..Len(sh) |->
        [h |-> sh[i].h, cb |-> [owner |-> name, beh |-> sh[i].beh, via |-> "shorthand"]]]

\* PluginManager.installPlugin: shorthand methods are tapped and tracked, then
\* plugin.install(context) taps what it wants through context.hooks
installPlugin(hs, name) ==
  tapAll(tapAll(hs, PluginDef(name).shorthand, name, "shorthand"),
         PluginDef(name).installTaps, name, "install")

\* PluginManager.installPlugin, catch branch: plugin.install threw after the
\* taps; the unsubscribers collected from the shorthand methods are run
installFailed(hs, name) == untapAll(installPlugin(hs, name), shorthandUnsubscribers(name))

hasPlugin(name) == \E i \in 1..Len(plugins) : plugins[i].name = name

\* a dependency check that finds nothing
nothingDependsOn(name) == FALSE

\* use: for (const dep of plugin.dependencies) if (!this.plugins.has(dep)) throw
missingDependency(name) == \E dep \in PluginDef(name).dependencies : ~hasPlugin(dep)

\* unuse: for (const [name, inst] of this.plugins)
\*          if (inst.plugin.dependencies?.includes(pluginName)) throw
dependsOnIt(name) ==
  \E i \in 1..Len(plugins) : name \in PluginDef(plugins[i].name).dependencies

\* number of callbacks registered on all hooks
RECURSIVE TotalTaps(_, _)
TotalTaps(hs, names) ==
  IF names = {} THEN 0
  ELSE LET h == CHOOSE x \in names : TRUE IN Len(hs[h]) + TotalTaps(hs, names \ {h})

(* ------------------------ numbers with fractions ------------------------ *)
\* A number of the view geometry is an exact fraction <<numerator, denominator>>
\* in lowest terms with a positive denominator.
RECURSIVE Gcd(_, _)
Gcd(a, b) == IF b = 0 THEN a ELSE Gcd(b, a % b)
Abs(a) == IF a < 0 THEN -a ELSE a
Frac(n, d) ==
  LET sn == IF d < 0 THEN -n ELSE n
      sd == Abs(d)
      g == Gcd(Abs(sn), sd)
  IN <<sn \div g, sd \div g>>
Num(k) == <<k, 1>>
FAdd(a, b) == Frac(a[1] * b[2] + b[1] * a[2], a[2] * b[2])
FSub(a, b) == Frac(a[1] * b[2] - b[1] * a[2], a[2] * b[2])
FMul(a, b) == Frac(a[1] * b[1], a[2] * b[2])
FDiv(a, b) == Frac(a[1] * b[2], a[2] * b[1])
FLess(a, b) == a[1] * b[2] < b[1] * a[2]
FLeq(a, b) == a[1] * b[2] <= b[1] * a[2]
\* Math.min / Math.max
FMin(a, b) == IF FLess(b, a) THEN b ELSE a
FMax(a, b) == IF FLess(a, b) THEN b ELSE a

\* geometry.ts clamp: Math.max(min, Math.min(max, value))
clamp(value, min, max) == FMax(min, FMin(max, value))

(* -------------------------- ViewportController -------------------------- *)
\* ConnectorOptions zoom settings of the engine instance
DefaultConfig == [minZoom |-> <<1, 10>>, maxZoom |-> Num(4), zoomStep |-> <<1, 10>>]

\* the ViewportController of a freshly constructed engine
NewViewport(config) ==
  [config |-> config,
   viewState |-> [scale |-> Num(1), translateX |-> Num(0), translateY |-> Num(0)],
   isPanning |-> FALSE,
   panStart |-> [x |-> Num(0), y |-> Num(0)]]

\* width and height of the container element
ContainerSize == [width |-> Num(4), height |-> Num(4)]

\* an updateTransform that tells nobody
updateTransformSilently(vp, emitted) == [vp |-> vp, emitted |-> emitted]

\* updateTransform: applies the transform and emits 'view:change' with a copy
\* of the view state; the result carries the emitted payloads
updateTransform(vp, emitted) == [vp |-> vp, emitted |-> Append(emitted, vp.viewState)]

\* a zoom around a point that keeps the translation it had
zoomAtPointKeepsTranslate(vp, newScale, pointX, pointY) ==
  updateTransform([vp EXCEPT !.viewState.scale =
                     clamp(newScale, vp.config.minZoom, vp.config.maxZoom)], <<>>)

\* ViewportController.zoomAtPoint
zoomAtPoint(vp, newScale, pointX, pointY) ==
  LET oldScale == vp.viewState.scale
      clamped == clamp(newScale, vp.config.minZoom, vp.config.maxZoom)
      worldX == FDiv(FSub(pointX, vp.viewState.translateX), oldScale)
      worldY == FDiv(FSub(pointY, vp.viewState.translateY), oldScale)
  IN updateTransform([vp EXCEPT !.viewState =
                        [scale |-> clamped,
                         translateX |-> FSub(pointX, FMul(worldX, clamped)),
                         translateY |-> FSub(pointY, FMul(worldY, clamped))]], <<>>)

\* ViewportController.setZoom: zoom around the centre of the container
setZoom(vp, scale) ==
  zoomAtPoint(vp, scale, FDiv(ContainerSize.width, Num(2)), FDiv(ContainerSize.height, Num(2)))

\* ViewportController.resetView
resetView(vp) ==
  updateTransform([vp EXCEPT !.viewState =
                     [scale |-> Num(1), translateX |-> Num(0), translateY |-> Num(0)]], <<>>)

\* ViewportController.zoomIn / zoomOut
zoomIn(vp) == setZoom(vp, FMin(vp.config.maxZoom, FAdd(vp.viewState.scale, vp.config.zoomStep)))
zoomOut(vp) == setZoom(vp, FMax(vp.config.minZoom, FSub(vp.viewState.scale, vp.config.zoomStep)))

\* the wheel listener: one zoom step towards (deltaY < 0) or away from the
\* pointer at mouseX, mouseY
handleWheel(vp, deltaYNegative, mouseX, mouseY) ==
  LET delta == IF deltaYNegative THEN vp.config.zoomStep ELSE FSub(Num(0), vp.config.zoomStep)
      newScale == clamp(FAdd(vp.viewState.scale, delta), vp.config.minZoom, vp.config.maxZoom)
  IN zoomAtPoint(vp, newScale, mouseX, mouseY)

\* an absent field of a Partial<ViewState>
Absent == <<0, 0>>

\* ViewportController.setViewState
setViewState(vp, state) ==
  LET s1 == IF state.scale # Absent
            THEN clamp(state.scale, vp.config.minZoom, vp.config.maxZoom)
            ELSE vp.viewState.scale
      x1 == IF state.translateX # Absent THEN state.translateX ELSE vp.viewState.translateX
      y1 == IF state.translateY # Absent THEN state.translateY ELSE vp.viewState.translateY
  IN updateTransform([vp EXCEPT !.viewState = [scale |-> s1, translateX |-> x1, translateY |-> y1]],
                     <<>>)

\* ViewportController.screenToWorld / worldToScreen
screenToWorld(vs, screenX, screenY) ==
  [x |-> FDiv(FSub(screenX, vs.translateX), vs.scale),
   y |-> FDiv(FSub(screenY, vs.translateY), vs.scale)]
worldToScreen(vs, worldX, worldY) ==
  [x |-> FAdd(FMul(worldX, vs.scale), vs.translateX),
   y |-> FAdd(FMul(worldY, vs.scale), vs.translateY)]

\* the pan listeners: mousedown on the empty canvas, mousemove, mouseup
handlePanStart(vp, clientX, clientY) ==
  [vp EXCEPT !.isPanning = TRUE,
             !.panStart = [x |-> FSub(clientX, vp.viewState.translateX),
                           y |-> FSub(clientY, vp.viewState.translateY)]]
handlePanMove(vp, clientX, clientY) ==
  IF vp.isPanning
  THEN updateTransform([vp EXCEPT !.viewState.translateX = FSub(clientX, vp.panStart.x),
                                  !.viewState.translateY = FSub(clientY, vp.panStart.y)], <<>>)
  ELSE [vp |-> vp, emitted |-> <<>>]
handlePanEnd(vp) == [vp EXCEPT !.isPanning = FALSE]

(* ------------------- elements, anchors and the snap detector ------------ *)
\* where the host placed the node elements inside the content wrapper (left, top)
NodeLayout ==
  [id \in NodeIds |-> IF id = <<"A">> THEN [x |-> Num(0), y |-> Num(0)]
                      ELSE [x |-> Num(4), y |-> Num(0)]]
\* offsetWidth and offsetHeight of a node element
NodeSize == [width |-> Num(2), height |-> Num(2)]

\* element.getBoundingClientRect() of the node placed at pos, for a container
\* at the origin of the client area and the transform of the content wrapper
getBoundingClientRect(pos, vs) ==
  LET topLeft == worldToScreen(vs, pos.x, pos.y)
      bottomRight == worldToScreen(vs, FAdd(pos.x, NodeSize.width), FAdd(pos.y, NodeSize.height))
  IN [left |-> topLeft.x, top |-> topLeft.y, right |-> bottomRight.x, bottom |-> bottomRight.y]

\* dom.ts getDotPosition
getDotPosition(rect, dotPosition, vs) ==
  LET screenX == IF dotPosition = "right" THEN rect.right ELSE rect.left
      screenY == FAdd(rect.top, FDiv(FSub(rect.bottom, rect.top), Num(2)))
  IN screenToWorld(vs, screenX, screenY)

\* geometry.ts calculateDistance, kept as its square
DistanceSquared(p1, p2) ==
  LET dx == FSub(p2.x, p1.x)
      dy == FSub(p2.y, p1.y)
  IN FAdd(FMul(dx, dx), FMul(dy, dy))

\* a range test that lets the threshold itself in
withinOrAtSnapDistance(distance2, snapDistance) ==
  FLeq(Num(0), snapDistance) /\ FLeq(distance2, FMul(snapDistance, snapDistance))

\* distance < this.config.snapDistance
withinSnapDistance(distance2, snapDistance) ==
  FLess(Num(0), snapDistance) /\ FLess(distance2, FMul(snapDistance, snapDistance))

\* no snap result (null)
NoSnap == [node |-> <<>>, dot |-> NoDot, position |-> [x |-> Num(0), y |-> Num(0)]]

\* the SnapHandler of a freshly constructed engine
NewSnapHandler(enabled, snapDistance) ==
  [config |-> [enabled |-> enabled, snapDistance |-> snapDistance],
   isSnapped |-> FALSE, snapTarget |-> <<>>, snapTargetDot |-> NoDot]

RECURSIVE DotsInOrder(_)
\* for (const node of nodes) node.forEachDot(...): the anchors in iteration order
DotsInOrder(ns) ==
  IF ns = <<>> THEN <<>>
  ELSE [j \in 1..Len(Head(ns).dots) |-> [node |-> Head(ns).id, dot |-> Head(ns).dots[j]]]
       \o DotsInOrder(Tail(ns))

RECURSIVE snapScan(_, _, _, _, _, _, _, _)
\* the two loops of checkSnap; closest = [found, distance2, result]
snapScan(dots, i, position, excludeId, snapDistance, pos, vs, closest) ==
  IF i > Len(dots) THEN closest
  ELSE IF dots[i].node = excludeId
  THEN snapScan(dots, i + 1, position, excludeId, snapDistance, pos, vs, closest)
  ELSE
    LET dotPos == getDotPosition(getBoundingClientRect(pos[dots[i].node], vs), dots[i].dot, vs)
        distance2 == DistanceSquared(position, dotPos)
    IN IF withinSnapDistance(distance2, snapDistance)
          /\ (~closest.found \/ FLess(distance2, closest.distance2))
       THEN snapScan(dots, i + 1, position, excludeId, snapDistance, pos, vs,
                     [found |-> TRUE, distance2 |-> distance2,
                      result |-> [node |-> dots[i].node, dot |-> dots[i].dot, position |-> dotPos]])
       ELSE snapScan(dots, i + 1, position, excludeId, snapDistance, pos, vs, closest)

\* SnapHandler.updateSnapState / clearSnapState
updateSnapState(sh, result) ==
  [sh EXCEPT !.isSnapped = TRUE, !.snapTarget = result.node, !.snapTargetDot = result.dot]
clearSnapState(sh) ==
  IF sh.isSnapped
  THEN [sh EXCEPT !.isSnapped = FALSE, !.snapTarget = <<>>, !.snapTargetDot = NoDot]
  ELSE sh

\* the end of checkSnap, once the loops have found the closest anchor
snapOutcome(sh, closest) ==
  IF closest.found
  THEN [sh |-> updateSnapState(sh, closest.result), ret |-> closest.result]
  ELSE [sh |-> clearSnapState(sh), ret |-> NoSnap]

\* SnapHandler.checkSnap(position, excludeNode)
checkSnap(sh, ns, pos, vs, position, excludeId) ==
  IF ~sh.config.enabled THEN [sh |-> sh, ret |-> NoSnap]
  ELSE snapOutcome(sh, snapScan(DotsInOrder(ns), 1, position, excludeId, sh.config.snapDistance,
                                pos, vs, [found |-> FALSE, distance2 |-> Num(0), result |-> NoSnap]))

\* Connector.getNodeAtPosition(x, y): the id of the first node whose rectangle
\* holds the client point, <<>> when there is none
getNodeAtPosition(ns, pos, vs, x, y) ==
  LET hit(i) == LET rect == getBoundingClientRect(pos[ns[i].id], vs)
                IN FLeq(rect.left, x) /\ FLeq(x, rect.right)
                   /\ FLeq(rect.top, y) /\ FLeq(y, rect.bottom)
      index == FirstIndex({i \in 1..Len(ns) : hit(i)})
  IN IF index = 0 THEN <<>> ELSE ns[index].id

(* ------------------------------ DragHandler ----------------------------- *)
\* listening: handleMouseMove and handleMouseUp are bound to the document
NewDragHandler ==
  [isDragging |-> FALSE, draggedNode |-> <<>>, dragOffset |-> [x |-> Num(0), y |-> Num(0)],
   listening |-> FALSE]

\* DragHandler.startDrag(node, e): r = [dh, pos]
startDrag(dh, pos, vs, nodeId, clientX, clientY) ==
  LET rect == getBoundingClientRect(pos[nodeId], vs)
      wrapperRect == [left |-> vs.translateX, top |-> vs.translateY]
      currentLeft == FDiv(FSub(rect.left, wrapperRect.left), vs.scale)
      currentTop == FDiv(FSub(rect.top, wrapperRect.top), vs.scale)
  IN [dh |-> [isDragging |-> TRUE, draggedNode |-> nodeId,
              dragOffset |-> [x |-> FDiv(FSub(clientX, rect.left), vs.scale),
                              y |-> FDiv(FSub(clientY, rect.top), vs.scale)],
              listening |-> TRUE],
      pos |-> [pos EXCEPT ![nodeId] = [x |-> currentLeft, y |-> currentTop]]]

\* DragHandler.onMouseMove(e)
dragMouseMove(dh, pos, vs, clientX, clientY) ==
  IF ~dh.isDragging \/ dh.draggedNode = <<>> THEN pos
  ELSE [pos EXCEPT ![dh.draggedNode] =
          [x |-> FSub(FDiv(FSub(clientX, vs.translateX), vs.scale), dh.dragOffset.x),
           y |-> FSub(FDiv(FSub(clientY, vs.translateY), vs.scale), dh.dragOffset.y)]]

\* DragHandler.onMouseUp()
dragMouseUp(dh) ==
  IF ~dh.isDragging \/ dh.draggedNode = <<>> THEN dh
  ELSE [dh EXCEPT !.isDragging = FALSE, !.draggedNode = <<>>, !.listening = FALSE]

\* DragHandler.stopDrag()
dragStopDrag(dh) == IF dh.isDragging THEN dragMouseUp(dh) ELSE dh

(* --------------------------- ConnectionHandler -------------------------- *)
\* tempLine: this.tempLine holds a path; tempLines: the paths createTempLine
\* appended to the SVG and removeTempLine has not removed; listening:
\* handleMouseMove and handleMouseUp are bound to the document
NewConnectionHandler ==
  [isDragging |-> FALSE, startNode |-> <<>>, startDot |-> NoDot, tempLine |-> FALSE,
   tempLines |-> 0, listening |-> FALSE]

\* no 'connection:request' was emitted
NoRequest == [fromNode |-> <<>>, toNode |-> <<>>, fromDot |-> NoDot, toDot |-> NoDot]

\* ConnectionHandler.startConnectionDrag(node, dot)
startConnectionDrag(ch, nodeId, dot) ==
  [isDragging |-> TRUE, startNode |-> nodeId, startDot |-> dot, tempLine |-> TRUE,
   tempLines |-> ch.tempLines + 1, listening |-> TRUE]

\* an end of drag that only lowers the flag
leaveDrawingHalfway(ch) == [ch EXCEPT !.isDragging = FALSE]

\* the end of a drag, common to onMouseUp and stopDrag: the path held is removed
\* from the SVG, the document listeners are unbound, the source is forgotten
leaveDrawing(ch) ==
  [isDragging |-> FALSE, startNode |-> <<>>, startDot |-> NoDot, tempLine |-> FALSE,
   tempLines |-> IF ch.tempLine THEN ch.tempLines - 1 ELSE ch.tempLines,
   listening |-> FALSE]

\* ConnectionHandler.onMouseMove(e): the snap detector is asked for the pointer position
connectionMouseMove(ch, sh, ns, pos, vs, clientX, clientY) ==
  IF ~ch.isDragging \/ ch.startNode = <<>> \/ ch.startDot = NoDot THEN sh
  ELSE LET endPos == screenToWorld(vs, clientX, clientY)
       IN checkSnap(sh, ns, pos, vs, endPos, ch.startNode).sh

\* an end of drag that asks for a connection whenever it found a node
connectionMouseUpAnyTarget(ch, sh, ns, pos, vs, clientX, clientY) ==
  LET target == getNodeAtPosition(ns, pos, vs, clientX, clientY)
  IN [ch |-> leaveDrawing(ch), sh |-> clearSnapState(sh),
      request |-> IF target = <<>> THEN NoRequest
                  ELSE [fromNode |-> ch.startNode, toNode |-> target,
                        fromDot |-> ch.startDot, toDot |-> NoDot]]

\* the end of onMouseUp, once the target is resolved: the drawing state is left
\* and a connection is asked for when the target is another node
connectionDragEnd(ch, sh, targetNode, targetDot) ==
  [ch |-> leaveDrawing(ch),
   sh |-> clearSnapState(sh),
   request |-> IF targetNode # <<>> /\ targetNode # ch.startNode
               THEN [fromNode |-> ch.startNode, toNode |-> targetNode,
                     fromDot |-> ch.startDot, toDot |-> targetDot]
               ELSE NoRequest]

\* the target of onMouseUp: the snap result first, the node under the pointer
\* (overNode) when there is none
connectionDragTarget(ch, snap, overNode) ==
  IF snap.ret # NoSnap
  THEN connectionDragEnd(ch, snap.sh, snap.ret.node, snap.ret.dot)
  ELSE connectionDragEnd(ch, snap.sh, overNode, NoDot)

\* ConnectionHandler.onMouseUp(e): r = [ch, sh, request]
connectionMouseUp(ch, sh, ns, pos, vs, clientX, clientY) ==
  IF ~ch.isDragging \/ ch.startNode = <<>> \/ ch.startDot = NoDot
  THEN [ch |-> ch, sh |-> sh, request |-> NoRequest]
  ELSE connectionDragTarget(ch,
                            checkSnap(sh, ns, pos, vs, screenToWorld(vs, clientX, clientY),
                                      ch.startNode),
                            getNodeAtPosition(ns, pos, vs, clientX, clientY))

\* a stopDrag that asks for a connection to the anchor the pointer is snapped to
connectionStopDragRequesting(ch, sh) ==
  IF ch.isDragging
  THEN connectionDragEnd(ch, sh, sh.snapTarget, sh.snapTargetDot)
  ELSE [ch |-> ch, sh |-> sh, request |-> NoRequest]

\* ConnectionHandler.stopDrag(): r = [ch, sh, request]; nothing is emitted
connectionStopDrag(ch, sh) ==
  IF ch.isDragging
  THEN [ch |-> leaveDrawing(ch), sh |-> clearSnapState(sh), request |-> NoRequest]
  ELSE [ch |-> ch, sh |-> sh, request |-> NoRequest]

(* ------------------- pointer events on the document --------------------- *)
\* this.viewport.canStartPan, set by Connector.init
canStartPan(targetIsDot, dh, ch, ns, pos, vs, clientX, clientY, enableNodeDrag) ==
  IF targetIsDot THEN FALSE
  ELSE IF dh.isDragging \/ ch.isDragging THEN FALSE
  ELSE IF getNodeAtPosition(ns, pos, vs, clientX, clientY) # <<>> /\ enableNodeDrag THEN FALSE
  ELSE TRUE

\* the mousedown listener of the container: handlePanStart behind canStartPan
containerMouseDown(vp, dh, ch, ns, pos, clientX, clientY) ==
  IF canStartPan(FALSE, dh, ch, ns, pos, vp.viewState, clientX, clientY, TRUE)
  THEN handlePanStart(vp, clientX, clientY)
  ELSE vp

\* the mousemove listeners of the two drag handlers, called only while bound
documentDragMove(dh, pos, vs, clientX, clientY) ==
  IF dh.listening THEN dragMouseMove(dh, pos, vs, clientX, clientY) ELSE pos
documentLinkMove(ch, sh, ns, pos, vs, clientX, clientY) ==
  IF ch.listening THEN connectionMouseMove(ch, sh, ns, pos, vs, clientX, clientY) ELSE sh

\* the mouseup listeners of the two drag handlers, called only while bound
documentDragUp(dh) == IF dh.listening THEN dragMouseUp(dh) ELSE dh
documentLinkUp(ch, sh, ns, pos, vs, clientX, clientY) ==
  IF ch.listening THEN connectionMouseUp(ch, sh, ns, pos, vs, clientX, clientY)
  ELSE [ch |-> ch, sh |-> sh, request |-> NoRequest]

\* a redraw that drops the Connections
updateNodeConnectionsDropping(W, nodeId) ==
  [W EXCEPT !.conns = <<>>]

\* Connector.updateNodeConnections(nodeId), the onNodePositionChange callback:
\* the paths of the node's Connections are drawn again, no list is touched
updateNodeConnections(W, nodeId) == W

(* --------------------------- Connector.destroy -------------------------- *)
\* a teardown that disconnects while the callbacks are still tapped
disconnectUncleared(W, snapshot, silent) == disconnectAll(W, silent)

RECURSIVE disconnectCleared(_, _, _)
\* this.disconnect(undefined, options) as destroy calls it, after clearAllHooks
\* emptied every hook: each Connection of the snapshot goes through the
\* branch with an id, where no callback is left to run
disconnectCleared(W, snapshot, silent) ==
  IF snapshot = <<>> THEN W
  ELSE
    LET index == FirstIndex({k \in 1..Len(W.conns) : W.conns[k].id = Head(snapshot).id})
    IN IF index = 0 THEN disconnectCleared(W, Tail(snapshot), silent)
       ELSE
         LET connection == W.conns[index]
             ns2 == removeConnection(removeConnection(W.nodes, connection.fromNode, connection.uid),
                                     connection.toNode, connection.uid)
             t1 == W.trace \o <<Ev("exec", "beforeDisconnect", 0, "", "", connection.id),
                                Ev("remove", "", 0, "", "", connection.id),
                                Ev("exec", "afterDisconnect", 0, "", "", connection.id)>>
             t2 == notify(t1, silent, "onDisconnect", "disconnect", connection.id)
         IN disconnectCleared([nodes |-> ns2, conns |-> RemoveAt(W.conns, index), trace |-> t2],
                              Tail(snapshot), silent)

\* the options of destroy(options): none, or {silent: s} kept as <<s>>
SilentOmitted == <<>>
SilentOption(s) == <<s>>

\* Connector.destroy: the plugins and every hook callback are dropped, then the
\* Connections are disconnected with silent: options.silent ?? true, then the
\* node list and the connection list are emptied
destroy(W, silentOption) ==
  LET W1 == disconnectCleared(W, W.conns, IF silentOption = SilentOmitted THEN TRUE ELSE silentOption[1])
  IN [nodes |-> <<>>, conns |-> <<>>, trace |-> W1.trace]

(* ------------- callbacks that call back into the Connector -------------- *)
\* Host callbacks that call the engine while a call is in progress. On
\* beforeDisconnect, "dropFirst" is
\*   conn => { const first = connector.connections[0];
\*             if (first.id !== conn.id) connector.disconnect(first.id); return conn; }
\* and on beforeNodeRemove, "dropFirstNode" is
\*   node => { const first = connector.nodes[0];
\*             if (first.id !== node.id) connector.unregisterNode(first.id); return node; }
\* Inside the call they make they are handed the first Connection (node) itself
\* and so do nothing more; the hosts of these callbacks tap one callback only.
\* what the callback cb, handed connection, does to the engine W
dropFirst(W, cb, connection) ==
  IF cb.beh = "dropFirst" /\ W.conns # <<>> /\ W.conns[1].id # connection.id
  THEN disconnectOne(W, W.conns[1].id, FALSE)
  ELSE W

RECURSIVE beforeDisconnectLoop(_, _, _, _)
\* the loop of hooks.beforeDisconnect.execute(connection) on the engine W: what
\* the callbacks leave of the engine, and whether one of them returned false
beforeDisconnectLoop(W, cbs, i, connection) ==
  IF i > Len(cbs) THEN [w |-> W, prevented |-> FALSE]
  ELSE IF CallbackResult(cbs[i], connection).kind = "false"
  THEN [w |-> Log(W, Ev("cb", "beforeDisconnect", i, cbs[i].owner, "false", connection.id)),
        prevented |-> TRUE]
  ELSE beforeDisconnectLoop(
         Log(dropFirst(W, cbs[i], connection),
             Ev("cb", "beforeDisconnect", i, cbs[i].owner,
                CallbackResult(cbs[i], connection).kind, connection.id)),
         cbs, i + 1, connection)

\* Array.prototype.splice(index, 1) with an index that may lie past the end
SpliceAt(s, i) == IF i <= Len(s) THEN RemoveAt(s, i) ELSE s

\* Connector.disconnect from the test of prevented on: r is what the
\* beforeDisconnect callbacks left, index the place the Connection had before
disconnectAfterGate(r, connection, index, silent) ==
  IF r.prevented
  THEN Log(r.w, Ev("log", "prevented", 0, "", "", connection.id))
  ELSE [nodes |-> removeConnection(removeConnection(r.w.nodes, connection.fromNode, connection.uid),
                                   connection.toNode, connection.uid),
        conns |-> SpliceAt(r.w.conns, index),
        trace |-> notify(SequentialExecute("afterDisconnect", connection, connection.id,
                                           Append(r.w.trace,
                                                  Ev("remove", "", 0, "", "", connection.id))).trace,
                         silent, "onDisconnect", "disconnect", connection.id)]

\* Connector.disconnect(connectionId, options) with callbacks that may call the
\* engine: index is found before beforeDisconnect runs and used after it
disconnectReentrant(W, connectionId, silent) ==
  LET index == FirstIndex({k \in 1..Len(W.conns) : W.conns[k].id = connectionId})
  IN IF index = 0 THEN W
     ELSE disconnectAfterGate(
            beforeDisconnectLoop(
              Log(W, Ev("exec", "beforeDisconnect", 0, "", "", W.conns[index].id)),
              hooks["beforeDisconnect"], 1, W.conns[index]),
            W.conns[index], index, silent)

RECURSIVE disconnectEachReentrant(_, _, _)
\* nodeConnections.forEach(conn => this.disconnect(conn.id))
disconnectEachReentrant(W, snapshot, silent) ==
  IF snapshot = <<>> THEN W
  ELSE disconnectEachReentrant(disconnectReentrant(W, Head(snapshot).id, silent),
                               Tail(snapshot), silent)

\* what the callback cb, handed node, does to the engine W
dropFirstNode(W, cb, node) ==
  IF cb.beh = "dropFirstNode" /\ W.nodes # <<>> /\ W.nodes[1].id # node.id
  THEN unregisterNode(W, W.nodes[1].id).w
  ELSE W

RECURSIVE beforeNodeRemoveLoop(_, _, _, _)
\* the loop of hooks.beforeNodeRemove.execute(node) on the engine W
beforeNodeRemoveLoop(W, cbs, i, node) ==
  IF i > Len(cbs) THEN [w |-> W, prevented |-> FALSE]
  ELSE IF CallbackResult(cbs[i], node).kind = "false"
  THEN [w |-> Log(W, Ev("cb", "beforeNodeRemove", i, cbs[i].owner, "false", node.id)),
        prevented |-> TRUE]
  ELSE beforeNodeRemoveLoop(
         Log(dropFirstNode(W, cbs[i], node),
             Ev("cb", "beforeNodeRemove", i, cbs[i].owner,
                CallbackResult(cbs[i], node).kind, node.id)),
         cbs, i + 1, node)

\* Connector.unregisterNode from this.nodes.splice(index, 1) on: W is what the
\* cascade of disconnects left
removeAfterCascade(W, node, index) ==
  [w |-> [nodes |-> SpliceAt(W.nodes, index),
          conns |-> W.conns,
          trace |-> Append(SequentialExecute("afterNodeRemove", node.id, node.id,
                                             Append(W.trace,
                                                    Ev("nodeRemoved", "", 0, "", "", node.id))).trace,
                           Ev("emit", "node:unregister", 0, "", "", node.id))],
   ret |-> TRUE]

\* Connector.unregisterNode from the test of prevented on: r is what the
\* beforeNodeRemove callbacks left
unregisterAfterGate(r, node, index) ==
  IF r.prevented
  THEN [w |-> Log(r.w, Ev("log", "prevented", 0, "", "", node.id)), ret |-> FALSE]
  ELSE removeAfterCascade(
         disconnectEachReentrant(r.w, ConnectionsOfNode(r.w.conns, node.id), FALSE),
         node, index)

\* Connector.unregisterNode with callbacks that may call the engine: index is
\* found before the hooks run and used in this.nodes.splice(index, 1) after them
unregisterNodeReentrant(W, nodeId) ==
  LET index == FirstIndex({k \in 1..Len(W.nodes) : W.nodes[k].id = nodeId})
  IN IF index = 0 THEN [w |-> W, ret |-> FALSE]
     ELSE unregisterAfterGate(
            beforeNodeRemoveLoop(
              Log(W, Ev("exec", "beforeNodeRemove", 0, "", "", W.nodes[index].id)),
              hooks["beforeNodeRemove"], 1, W.nodes[index]),
            W.nodes[index], index)

(* --------------- callbacks that untap during an execute ----------------- *)
\* Host callbacks that return their data and, before that, call an unsubscribe
\* function: "untapSelf" their own, "untapH1" that of the callback named h1.
\* this.callbacks is the array the for...of loop of execute is iterating.
untapNamed(cbs, owner) ==
  LET index == FirstIndex({k \in 1..Len(cbs) : cbs[k].owner = owner})
  IN IF index = 0 THEN cbs ELSE RemoveAt(cbs, index)

\* the callback array after callback cb ran
afterCallback(cbs, cb) ==
  IF cb.beh = "untapSelf" THEN untapNamed(cbs, cb.owner)
  ELSE IF cb.beh = "untapH1" THEN untapNamed(cbs, "h1")
  ELSE cbs

RECURSIVE executeLive(_, _, _)
\* for (const callback of this.callbacks) { currentData = callback(...) }: the
\* array iterator reads this.callbacks[i] while i < this.callbacks.length; ran
\* lists the names of the callbacks invoked
executeLive(cbs, i, ran) ==
  IF i > Len(cbs) THEN [callbacks |-> cbs, ran |-> ran]
  ELSE executeLive(afterCallback(cbs, cbs[i]), i + 1, Append(ran, cbs[i].owner))

(* ------------------------------ actions --------------------------------- *)
\* options.dotPositions handed to registerNode
OmittedDots == [kind |-> "omitted", arr |-> <<>>]
BothDots == [kind |-> "both", arr |-> <<>>]
ArrayDots(arr) == [kind |-> "array", arr |-> arr]

\* a callback the host taps: the hook and what the callback does
HostTap(h, beh) == [h |-> h, beh |-> beh]

\* the ConnectionState entries a caller hands to load(): saved descriptions of
\* A.right -> B.left and of B.right -> A.left
SavedEntries ==
  {[id |-> <<"saved">>, fromNodeId |-> <<"A">>, toNodeId |-> <<"B">>,
    fromDot |-> "right", toDot |-> "left"],
   [id |-> <<"saved">>, fromNodeId |-> <<"B">>, toNodeId |-> <<"A">>,
    fromDot |-> "right", toDot |-> "left"]}

SavedLists == UNION {[1..n -> SavedEntries] : n \in 0..MaxSaved}

W0 == [nodes |-> nodes, conns |-> connections, trace |-> <<>>]

\* Object identities are kept canonical between calls: a node object in the node
\* list is named by its index, one that left the list (and is reachable only
\* through a connection) by 0, and a connection object by its index.
CanonNodeUid(W, uid) == FirstIndex({k \in 1..Len(W.nodes) : W.nodes[k].uid = uid})
CanonConnUid(W, uid) == FirstIndex({k \in 1..Len(W.conns) : W.conns[k].uid = uid})

CanonNodes(W) ==
  [i \in 1..Len(W.nodes) |->
     [W.nodes[i] EXCEPT !.uid = i,
                        !.conns = [k \in 1..Len(@) |-> CanonConnUid(W, @[k])]]]

CanonConns(W) ==
  [i \in 1..Len(W.conns) |->
     [W.conns[i] EXCEPT !.uid = i,
                        !.fromNode = CanonNodeUid(W, @),
                        !.toNode = CanonNodeUid(W, @)]]

CommitTopology(W, op, arg, ret, warnings) ==
  /\ Len(W.nodes) <= MaxNodes
  /\ Len(W.conns) <= MaxConns
  /\ nodes' = CanonNodes(W)
  /\ connections' = CanonConns(W)
  /\ last' = [op |-> op, arg |-> arg, ret |-> ret, trace |-> W.trace, warnings |-> warnings]
  /\ UNCHANGED <<hooks, plugins, hookUnsubscribers, now>>

Commit(W, op, arg, ret, warnings) ==
  /\ CommitTopology(W, op, arg, ret, warnings)
  /\ UNCHANGED ui

\* the engine right after construction, but for its view and pointer machinery
InitTopology ==
  /\ nodes = <<>>
  /\ connections = <<>>
  /\ hooks = [h \in HookNames |-> <<>>]
  /\ plugins = <<>>
  /\ hookUnsubscribers = [n \in PluginNames |-> <<>>]
  /\ now = 0
  /\ last = [op |-> "init", arg |-> <<>>, ret |-> <<>>, trace |-> <<>>, warnings |-> <<>>]

\* the pointer machinery right after construction, with the snap settings given
InitPointer(enableSnap, snapDistance) ==
  /\ positions = NodeLayout
  /\ dragHandler = NewDragHandler
  /\ connectionHandler = NewConnectionHandler
  /\ snapHandler = NewSnapHandler(enableSnap, snapDistance)

Init ==
  /\ InitTopology
  /\ viewport = NewViewport(DefaultConfig)
  /\ InitPointer(TRUE, Num(20))

\* ids of the nodes in the node list, and the ids not in use
RegisteredIds == {nodes[i].id : i \in 1..Len(nodes)}
UnregisteredIds == NodeIds \ RegisteredIds

\* registerNode(id, element, options) for an id of ids
RegisterNodeWith(ids, options) ==
  \E id \in ids, opt \in options :
    LET r == registerNode(W0, id, opt)
    IN Commit(r.w, "registerNode", id, r.ret, <<>>)

\* unregisterNode(id) for an id of ids
UnregisterNodeWith(ids) ==
  \E id \in ids :
    LET r == unregisterNode(W0, id)
    IN Commit(r.w, "unregisterNode", id, r.ret, <<>>)

\* connect(fromNodeId, toNodeId, fromDotPosition?, toDotPosition?, options?) for
\* node ids of ids;
\* dotArgs are the <<fromDotPosition, toDotPosition>> pairs tried (NoDot: omitted)
ConnectWith(ids, dotArgs, silents) ==
  \E f \in ids, t \in ids, d \in dotArgs, silent \in silents :
    LET r == connect(W0, f, t, d[1], d[2], silent)
    IN Commit(r.w, "connect", <<f, t>>, r.ret, <<>>)

\* createConnection called with NodeModel objects and no DotModel (as a drag that
\* ends on a node body does)
CreateConnection ==
  \E i \in 1..Len(nodes), j \in 1..Len(nodes) :
    LET r == createConnection(W0, nodes[i].uid, nodes[j].uid, NoDot, NoDot, FALSE)
    IN Commit(r.w, "createConnection", <<nodes[i].id, nodes[j].id>>, r.ret, <<>>)

DisconnectWith(silents) ==
  \E i \in 1..Len(connections), silent \in silents :
    Commit(disconnectOne(W0, connections[i].id, silent), "disconnect",
           connections[i].id, <<>>, <<>>)

DisconnectAllWith(silents) ==
  \E silent \in silents :
    Commit(disconnectAll(W0, silent), "disconnectAll", <<>>, <<>>, <<>>)

LoadWith(lists) ==
  \E saved \in lists :
    LET r == load(W0, [connections |-> saved], FALSE)
    IN Commit(r.w, "load", saved, <<>>, r.ret)

\* load(save())
LoadSave ==
  LET s == save(W0)
      r == load(s.w, s.ret, FALSE)
  IN Commit(r.w, "loadSave", s.ret.connections, <<>>, r.ret)

Idle(op, arg, ret) ==
  /\ last' = [op |-> op, arg |-> arg, ret |-> ret, trace |-> <<>>, warnings |-> <<>>]
  /\ UNCHANGED ui

\* hooks.<h>.tap(callback) by the host, while fewer than limit callbacks are tapped
TapWith(taps, limit) ==
  \E t \in taps :
    /\ TotalTaps(hooks, HookNames) < limit
    /\ hooks' = tap(hooks, t.h, [owner |-> "host", beh |-> t.beh, via |-> "host"])
    /\ Idle("tap", t.h, 0)
    /\ UNCHANGED <<nodes, connections, plugins, hookUnsubscribers, now>>

\* the unsubscribe function returned by tap, or hooks.<h>.untap(callback)
Untap ==
  \E h \in HookNames :
    \E i \in 1..Len(hooks[h]) :
      /\ hooks[h][i].owner = "host"
      /\ hooks' = untap(hooks, h, hooks[h][i])
      /\ Idle("untap", h, 0)
      /\ UNCHANGED <<nodes, connections, plugins, hookUnsubscribers, now>>

\* PluginManager.use of a plugin of names (the context is set once the Connector
\* is constructed)
\* history, redoStack: the stacks of the HistoryPlugin object, which install
\* empties (they stay empty in the other plugins)
UseWith(names) ==
  \E name \in names :
    /\ \A h \in HookNames : Len(installPlugin(hooks, name)[h]) <= MaxTaps
    /\ IF hasPlugin(name)
       THEN /\ Idle("use", name, "already")
            /\ UNCHANGED <<hooks, plugins, hookUnsubscribers>>
       ELSE IF missingDependency(name)
       THEN /\ Idle("use", name, "throw")
            /\ UNCHANGED <<hooks, plugins, hookUnsubscribers>>
       ELSE IF installThrows(name)
       THEN /\ plugins' = Append(plugins, [name |-> name, installed |-> FALSE,
                                      history |-> <<>>, redoStack |-> <<>>])
            /\ hooks' = installFailed(hooks, name)
            /\ Idle("use", name, "error")
            /\ UNCHANGED hookUnsubscribers
       ELSE /\ plugins' = Append(plugins, [name |-> name, installed |-> TRUE,
                                      history |-> <<>>, redoStack |-> <<>>])
            /\ hooks' = installPlugin(hooks, name)
            /\ hookUnsubscribers' = [hookUnsubscribers EXCEPT ![name] = shorthandUnsubscribers(name)]
            /\ Idle("use", name, "ok")
    /\ UNCHANGED <<nodes, connections, now>>

\* PluginManager.unuse of a plugin of names
UnuseWith(names) ==
  \E name \in names :
    /\ IF ~hasPlugin(name)
       THEN /\ Idle("unuse", name, "missing")
            /\ UNCHANGED <<hooks, plugins, hookUnsubscribers>>
       ELSE IF dependsOnIt(name)
       THEN /\ Idle("unuse", name, "throw")
            /\ UNCHANGED <<hooks, plugins, hookUnsubscribers>>
       ELSE /\ hooks' = untapAll(hooks, hookUnsubscribers[name])
            /\ hookUnsubscribers' = [hookUnsubscribers EXCEPT ![name] = <<>>]
            /\ plugins' = RemoveAt(plugins, FirstIndex({k \in 1..Len(plugins) : plugins[k].name = name}))
            /\ Idle("unuse", name, "ok")
    /\ UNCHANGED <<nodes, connections, now>>

(* --------------------------- specifications ----------------------------- *)
\* Spec: the topology API with host callbacks on the connect gate
GateTaps == {HostTap("beforeConnect", "veto"), HostTap("beforeConnect", "toRight")}

\* connect(a, b) with the anchors auto-selected, and connect(a, b, 'left', 'right')
AutoOrCrossed == {<<NoDot, NoDot>>, <<"left", "right">>}

RegisterNode == RegisterNodeWith(UnregisteredIds, {BothDots})
UnregisterNode == UnregisterNodeWith(RegisteredIds)
Connect == ConnectWith(RegisteredIds, AutoOrCrossed, {FALSE})
Disconnect == DisconnectWith({FALSE})
Tap == TapWith(GateTaps, MaxTaps)

Next ==
  \/ RegisterNode
  \/ UnregisterNode
  \/ Connect
  \/ Disconnect
  \/ LoadSave
  \/ Tap
  \/ Untap

Spec == Init /\ [][Next]_vars

\* SpecDisconnect: the topology API with host callbacks on the disconnect hooks
DisconnectTaps == {HostTap("beforeDisconnect", "vetoLeft"), HostTap("afterDisconnect", "pass")}

DisconnectAll == DisconnectAllWith({FALSE})
TapDisconnect == TapWith(DisconnectTaps, MaxTaps)

NextDisconnect ==
  \/ RegisterNode
  \/ UnregisterNode
  \/ Connect
  \/ Disconnect
  \/ DisconnectAll
  \/ TapDisconnect
  \/ Untap

SpecDisconnect == Init /\ [][NextDisconnect]_vars

\* SpecLoad: nodes registered with the default anchors (the first of an empty
\* list gets 'right', any other 'left'), load of caller-supplied states, and host
\* callbacks that veto on the two gates load goes through
LoadTaps == {HostTap("beforeDisconnect", "veto"), HostTap("beforeConnect", "veto")}

RegisterNodeDefault == RegisterNodeWith(UnregisteredIds, {OmittedDots})
ConnectAuto == ConnectWith(RegisteredIds, {<<NoDot, NoDot>>}, {FALSE})
Load == LoadWith(SavedLists)
TapLoad == TapWith(LoadTaps, MaxTaps)

NextLoad ==
  \/ RegisterNodeDefault
  \/ ConnectAuto
  \/ Load
  \/ TapLoad
  \/ Untap

SpecLoad == Init /\ [][NextLoad]_vars

\* SpecRoundTrip: load(save()) on topologies built by registerNode, connect and
\* unregisterNode, with a host callback that vetoes disconnects
VetoDisconnectTaps == {HostTap("beforeDisconnect", "veto")}

TapVetoDisconnect == TapWith(VetoDisconnectTaps, MaxTaps)

NextRoundTrip ==
  \/ RegisterNode
  \/ UnregisterNode
  \/ ConnectAuto
  \/ LoadSave
  \/ TapVetoDisconnect
  \/ Untap

SpecRoundTrip == Init /\ [][NextRoundTrip]_vars

\* SpecPlugins: plugins installed and uninstalled around connects and disconnects
UsedPlugins == {"HistoryPlugin", "GuardPlugin"}

Use == UseWith(UsedPlugins)
Unuse == UnuseWith(UsedPlugins)

NextPlugins ==
  \/ RegisterNode
  \/ ConnectAuto
  \/ Disconnect
  \/ Use
  \/ Unuse

SpecPlugins == Init /\ [][NextPlugins]_vars

(* ------------------------------ properties ------------------------------ *)
\* entries of the log l.trace of a call
LoggedIn(l, k, h) == \E i \in 1..Len(l.trace) : l.trace[i].k = k /\ l.trace[i].h = h
CallbackReturnedIn(l, h, res) ==
  \E i \in 1..Len(l.trace) :
    l.trace[i].k = "cb" /\ l.trace[i].h = h /\ l.trace[i].res = res
Logged(k, h) == LoggedIn(last, k, h)
CallbackReturned(h, res) == CallbackReturnedIn(last, h, res)

\* two connections join the same pair of anchors, in either direction
SameEndpoints(c, d) ==
  \/ c.fromId = d.fromId /\ c.fromDot = d.fromDot /\ c.toId = d.toId /\ c.toDot = d.toDot
  \/ c.fromId = d.toId /\ c.fromDot = d.toDot /\ c.toId = d.fromId /\ c.toDot = d.fromDot

\* C1: at every state reached through registerNode, unregisterNode, connect
\* (and the createConnection it ends in), disconnect and load, with beforeConnect callbacks that veto or rewrite the
\* parameters, no two distinct Connections of the connection list join the same
\* pair of anchors (in either direction).
C1_NoEquivalentConnections ==
  \A i, j \in 1..Len(connections) :
    i # j => ~SameEndpoints(connections[i], connections[j])

\* C1 witness: a connect whose parameters a beforeConnect callback rewrote was
\* rejected as a duplicate of one of two existing Connections
C1_Witness ==
  /\ last.op = "connect"
  /\ CallbackReturned("beforeConnect", "value")
  /\ \E i \in 1..Len(hooks["beforeConnect"]) : hooks["beforeConnect"][i].beh = "toRight"
  /\ Logged("warn", "duplicate")
  /\ Len(connections) = 2

\* C2: when the first callback tapped on beforeConnect returns false, a connect
\* that reaches the hook invokes no later beforeConnect callback, returns
\* undefined, leaves the connection list and every node's connection list as
\* they were, and runs neither afterConnect nor the host's onConnect.
C2_FirstVetoStopsConnect ==
  [][(/\ last'.op = "connect"
      /\ LoggedIn(last', "exec", "beforeConnect")
      /\ Len(hooks["beforeConnect"]) >= 1
      /\ hooks["beforeConnect"][1].beh = "veto")
     => (/\ \A i \in 1..Len(last'.trace) :
               (last'.trace[i].k = "cb" /\ last'.trace[i].h = "beforeConnect")
                 => last'.trace[i].i = 1
         /\ last'.ret = <<>>
         /\ connections' = connections
         /\ nodes' = nodes
         /\ ~LoggedIn(last', "insert", "")
         /\ ~LoggedIn(last', "exec", "afterConnect")
         /\ ~LoggedIn(last', "host", "onConnect"))]_vars

\* C2 witness: H1 (returns false) and H2 (rewrites) are tapped in that order, a
\* Connection exists, and a connect call has just run the beforeConnect hook
C2_Witness ==
  /\ last.op = "connect"
  /\ Logged("exec", "beforeConnect")
  /\ Len(hooks["beforeConnect"]) = 2
  /\ hooks["beforeConnect"][1].beh = "veto"
  /\ hooks["beforeConnect"][2].beh = "toRight"
  /\ Len(connections) >= 1

\* C7: a connect whose two node ids are equal returns undefined, and no
\* Connection of the connection list joins a node to itself.
C7_NoSelfConnection ==
  /\ (last.op = "connect" /\ last.arg[1] = last.arg[2]) => last.ret = <<>>
  /\ \A i \in 1..Len(connections) : connections[i].fromId # connections[i].toId

\* C3: after unregisterNode(id) returned true no Connection of the connection
\* list has id as an endpoint, and every Connection's endpoints are registered.
C3_UnregisterLeavesNoConnection ==
  /\ (last.op = "unregisterNode" /\ last.ret = TRUE)
       => \A i \in 1..Len(connections) :
            connections[i].fromId # last.arg /\ connections[i].toId # last.arg
  /\ \A i \in 1..Len(connections) :
       /\ \E k \in 1..Len(nodes) : nodes[k].id = connections[i].fromId
       /\ \E k \in 1..Len(nodes) : nodes[k].id = connections[i].toId

\* positions in the log of the last call of the entries of kind k, name h, about s
At(k, h, s) ==
  {i \in 1..Len(last.trace) :
     last.trace[i].k = k /\ last.trace[i].h = h /\ last.trace[i].s = s}
\* positions at which the i-th callback of hook h ran for s
CallbackAt(h, i, s) ==
  {p \in At("cb", h, s) : last.trace[p].i = i}

\* C4: in the log of an unregisterNode call, every Connection the cascade removed
\* had the beforeDisconnect hook and each of its callbacks run exactly once before
\* the removal, then the afterDisconnect hook and each of its callbacks run exactly
\* once, all of it before the node left the node list and before afterNodeRemove.
C4_CascadeOrder ==
  last.op = "unregisterNode" =>
    \A r \in 1..Len(last.trace) :
      last.trace[r].k = "remove" =>
        LET s == last.trace[r].s
            nodeGone == At("nodeRemoved", "", last.arg) \cup At("exec", "afterNodeRemove", last.arg)
        IN /\ Cardinality(At("exec", "beforeDisconnect", s)) = 1
           /\ Cardinality(At("exec", "afterDisconnect", s)) = 1
           /\ \A b \in At("exec", "beforeDisconnect", s) : b < r
           /\ \A a \in At("exec", "afterDisconnect", s) : r < a
           /\ \A i \in 1..Len(hooks["beforeDisconnect"]) :
                /\ Cardinality(CallbackAt("beforeDisconnect", i, s)) = 1
                /\ \A p \in CallbackAt("beforeDisconnect", i, s) : p < r
           /\ \A i \in 1..Len(hooks["afterDisconnect"]) :
                /\ Cardinality(CallbackAt("afterDisconnect", i, s)) = 1
                /\ \A p \in CallbackAt("afterDisconnect", i, s) :
                     r < p /\ \A n \in nodeGone : p < n
           /\ Cardinality(nodeGone) = 2
           /\ \A n \in nodeGone : \A a \in At("exec", "afterDisconnect", s) : a < n

\* C4 witness: an unregisterNode whose cascade removed two Connections while
\* callbacks were tapped on beforeDisconnect and on afterDisconnect
C4_Witness ==
  /\ last.op = "unregisterNode"
  /\ last.ret = TRUE
  /\ Cardinality({r \in 1..Len(last.trace) : last.trace[r].k = "remove"}) = 2
  /\ Len(hooks["beforeDisconnect"]) = 1
  /\ Len(hooks["afterDisconnect"]) = 1

\* ids of the Connections in the connection list of each node
ListedAt(ns, cs, n) == {cs[ns[n].conns[j]].id : j \in 1..Len(ns[n].conns)}
\* some beforeDisconnect callback returns false for connection c
Vetoed(c) ==
  \E i \in 1..Len(hooks["beforeDisconnect"]) :
    CallbackResult(hooks["beforeDisconnect"][i], c).kind = "false"
\* number of log entries of kind k, name h, about s in l
CountIn(l, k, h, s) ==
  Cardinality({i \in 1..Len(l.trace) :
                 l.trace[i].k = k /\ l.trace[i].h = h /\ l.trace[i].s = s})

\* C5: disconnect(id) and disconnect() run beforeDisconnect exactly once for the
\* Connection named, respectively for every Connection present when the call
\* starts; a Connection for which a callback returned false stays in the
\* connection list and in the lists of its nodes, with no afterDisconnect and no
\* host callback; any other is removed from the list and from the nodes' lists;
\* after disconnect() the Connections left are exactly the vetoed ones.
C5_DisconnectVeto ==
  [][last'.op \in {"disconnect", "disconnectAll"} =>
      LET targets == IF last'.op = "disconnect"
                     THEN {i \in 1..Len(connections) : connections[i].id = last'.arg}
                     ELSE 1..Len(connections)
      IN /\ \A i \in targets :
              LET c == connections[i]
              IN /\ CountIn(last', "exec", "beforeDisconnect", c.id) = 1
                 /\ IF Vetoed(c)
                    THEN /\ \E k \in 1..Len(connections') : connections'[k].id = c.id
                         /\ \A n \in 1..Len(nodes) :
                              c.id \in ListedAt(nodes, connections, n)
                                => (nodes'[n].id = nodes[n].id
                                    /\ c.id \in ListedAt(nodes', connections', n))
                         /\ CountIn(last', "remove", "", c.id) = 0
                         /\ CountIn(last', "exec", "afterDisconnect", c.id) = 0
                         /\ CountIn(last', "host", "onDisconnect", c.id) = 0
                    ELSE /\ \A k \in 1..Len(connections') : connections'[k].id # c.id
                         /\ \A n \in 1..Len(nodes') :
                              c.id \notin ListedAt(nodes', connections', n)
                         /\ CountIn(last', "exec", "afterDisconnect", c.id) = 1
                         /\ CountIn(last', "host", "onDisconnect", c.id) = 1
         /\ last'.op = "disconnectAll" =>
              {connections'[k].id : k \in 1..Len(connections')}
                = {connections[i].id : i \in {j \in targets : Vetoed(connections[j])}}]_vars

\* C5 witness: a disconnect() met two Connections, one that a callback vetoed
\* and one that it let go
C5_Witness ==
  /\ last.op = "disconnectAll"
  /\ Len(connections) = 1
  /\ Vetoed(connections[1])
  /\ \E i \in 1..Len(last.trace) : last.trace[i].k = "remove"

\* the (fromNodeId, fromSide, toNodeId, toSide) tuple of a Connection and of a
\* saved ConnectionState
TupleOf(c) == <<c.fromId, c.fromDot, c.toId, c.toDot>>
SavedTuple(e) == <<e.fromNodeId, e.fromDot, e.toNodeId, e.toDot>>
TuplesOf(cs) == {TupleOf(cs[i]) : i \in 1..Len(cs)}

\* C8: after load(save()) on an engine with at least one Connection, made while
\* no callback is tapped on any hook, the Connections have the tuples the saved
\* state lists and load returned no warning.
C8_RoundTrip ==
  (last.op = "loadSave" /\ Len(last.arg) >= 1 /\ TotalTaps(hooks, HookNames) = 0)
    => /\ TuplesOf(connections) = {SavedTuple(last.arg[i]) : i \in 1..Len(last.arg)}
       /\ last.warnings = <<>>

\* a saved entry whose two nodes are registered and have the anchors it names
Resolves(e) ==
  /\ \E i \in 1..Len(nodes) :
       nodes[i].id = e.fromNodeId /\ e.fromDot \in Range(nodes[i].dots)
  /\ \E i \in 1..Len(nodes) :
       nodes[i].id = e.toNodeId /\ e.toDot \in Range(nodes[i].dots)
\* the endpoints a saved entry describes
EndpointsOf(e) ==
  [fromId |-> e.fromNodeId, toId |-> e.toNodeId, fromDot |-> e.fromDot, toDot |-> e.toDot]
\* some beforeConnect callback returns false for the saved entry
ConnectVetoed(e) ==
  \E i \in 1..Len(hooks["beforeConnect"]) :
    CallbackResult(hooks["beforeConnect"][i], EndpointsOf(e)).kind = "false"

Unresolvable(saved) == {j \in 1..Len(saved) : ~Resolves(saved[j])}

C6_UnuseRemovesCallbacks ==
  /\ (last.op = "unuse" /\ last.ret = "ok")
       => \A h \in HookNames : \A i \in 1..Len(hooks[h]) : hooks[h][i].owner # last.arg
  /\ \A i \in 1..Len(last.trace) :
       last.trace[i].k = "cb"
         => (last.trace[i].owner = "host" \/ hasPlugin(last.trace[i].owner))

(* ------------------- hook execution on its own: C11, C12 ---------------- *)
MaxChain == 3

\* the hooks executed directly: one SequentialHook and one PreventableHook
SequentialHookName == "afterConnect"
PreventableHookName == "beforeConnect"

\* the data handed to execute: the list of marks left on it so far
HookInputs == {<<>>, <<"d">>}

\* the callbacks tapped: by the host (hook.tap) or through the wrapper that
\* registerShorthandHooks builds around a plugin method
ChainCallbacks ==
  {[owner |-> "host", beh |-> b, via |-> "host"] :
     b \in {"markX", "markY", "veto", "throw", "undefined"}}
  \cup {[owner |-> "plugin", beh |-> b, via |-> "shorthand"] : b \in {"throw", "undefined"}}

\* hook.tap(callback)
TapHook ==
  \E h \in {SequentialHookName, PreventableHookName} :
    \E cb \in ChainCallbacks :
      /\ TotalTaps(hooks, HookNames) < MaxChain
      /\ hooks' = tap(hooks, h, cb)
      /\ Idle("tap", h, 0)
      /\ UNCHANGED <<nodes, connections, plugins, hookUnsubscribers, now>>

\* hook.execute(data) on the SequentialHook
ExecuteSequential ==
  \E d \in HookInputs :
    LET r == SequentialExecute(SequentialHookName, d, <<>>, <<>>)
    IN /\ last' = [op |-> "executeSequential", arg |-> d, ret |-> r.data,
                   trace |-> r.trace, warnings |-> <<>>]
       /\ UNCHANGED <<nodes, connections, hooks, plugins, hookUnsubscribers, now, ui>>

\* hook.execute(data) on the PreventableHook
ExecutePreventable ==
  \E d \in HookInputs :
    LET r == PreventableExecute(PreventableHookName, d, <<>>, <<>>)
    IN /\ last' = [op |-> "executePreventable", arg |-> d,
                   ret |-> [data |-> r.data, prevented |-> r.prevented],
                   trace |-> r.trace, warnings |-> <<>>]
       /\ UNCHANGED <<nodes, connections, hooks, plugins, hookUnsubscribers, now, ui>>

NextHooks ==
  \/ TapHook
  \/ ExecuteSequential
  \/ ExecutePreventable

SpecHooks == Init /\ [][NextHooks]_vars

\* what callback cb hands back for data d: a value, false, or nothing when it throws
Throws(cb, d) == CallbackResult(cb, d).kind = "throw"
ReturnsFalse(cb, d) == CallbackResult(cb, d).kind = "false"
ReturnedValue(cb, d) == IF ReturnsFalse(cb, d) THEN FalseValue ELSE CallbackResult(cb, d).data

\* the indexes of the callbacks a call ran, in the order it ran them
RunIndexes == [i \in 1..(Len(last.trace) - 1) |-> last.trace[i + 1].i]
UpTo(n) == [i \in 1..n |-> i]

\* the data each callback of a SequentialHook is handed: the caller's data, then
\* what the callback before it returned (kept as it was where that one threw)
SequentialData(cbs, d) ==
  LET v[i \in 0..Len(cbs)] ==
        IF i = 0 THEN d
        ELSE IF Throws(cbs[i], v[i - 1]) THEN v[i - 1]
        ELSE ReturnedValue(cbs[i], v[i - 1])
  IN v

\* the same for a PreventableHook, where false is never threaded on
PreventableData(cbs, d) ==
  LET v[i \in 0..Len(cbs)] ==
        IF i = 0 THEN d
        ELSE IF Throws(cbs[i], v[i - 1]) \/ ReturnsFalse(cbs[i], v[i - 1]) THEN v[i - 1]
        ELSE ReturnedValue(cbs[i], v[i - 1])
  IN v

\* the first callback of a PreventableHook that answers false, 0 when none does
FirstFalse(cbs, d) ==
  FirstIndex({i \in 1..Len(cbs) : ReturnsFalse(cbs[i], PreventableData(cbs, d)[i - 1])})

NoneThrows(cbs, v) == \A i \in 1..Len(cbs) : ~Throws(cbs[i], v[i - 1])

\* C11: execute runs the callbacks in the order they were tapped, hands the
\* caller's data to the first and each return value to the next, and returns
\* the last return value; a PreventableHook does so up to the first callback
\* that returns false, and then returns the data that callback was handed.
C11_ExecuteThreadsData ==
  /\ (last.op = "executeSequential"
      /\ NoneThrows(hooks[SequentialHookName], SequentialData(hooks[SequentialHookName], last.arg)))
     => LET cbs == hooks[SequentialHookName]
        IN /\ RunIndexes = UpTo(Len(cbs))
           /\ last.ret = SequentialData(cbs, last.arg)[Len(cbs)]
  /\ (last.op = "executePreventable"
      /\ NoneThrows(hooks[PreventableHookName], PreventableData(hooks[PreventableHookName], last.arg)))
     => LET cbs == hooks[PreventableHookName]
            k == FirstFalse(cbs, last.arg)
        IN IF k = 0
           THEN /\ RunIndexes = UpTo(Len(cbs))
                /\ last.ret = [data |-> PreventableData(cbs, last.arg)[Len(cbs)], prevented |-> FALSE]
           ELSE /\ RunIndexes = UpTo(k)
                /\ last.ret = [data |-> PreventableData(cbs, last.arg)[k - 1], prevented |-> TRUE]

\* a chain of three marking callbacks ran on the caller's data, in tap order
C11_Witness ==
  /\ last.op = "executeSequential"
  /\ last.arg = <<"d">>
  /\ Len(hooks[SequentialHookName]) = 3
  /\ last.ret = <<"d", "y", "x", "y">>

\* C12: a callback that throws neither ends execute nor the chain: every later
\* callback still runs; a SequentialHook hands the data unchanged to the next
\* callback, a PreventableHook treats the throw as a non-prevention.
C12_ThrowIsSkipped ==
  /\ (last.op = "executeSequential"
      /\ ~NoneThrows(hooks[SequentialHookName], SequentialData(hooks[SequentialHookName], last.arg)))
     => LET cbs == hooks[SequentialHookName]
        IN /\ RunIndexes = UpTo(Len(cbs))
           /\ last.ret = SequentialData(cbs, last.arg)[Len(cbs)]
  /\ (last.op = "executePreventable"
      /\ ~NoneThrows(hooks[PreventableHookName], PreventableData(hooks[PreventableHookName], last.arg)))
     => LET cbs == hooks[PreventableHookName]
            k == FirstFalse(cbs, last.arg)
        IN /\ RunIndexes = UpTo(IF k = 0 THEN Len(cbs) ELSE k)
           /\ last.ret.prevented = (k # 0)
           /\ last.ret.data = PreventableData(cbs, last.arg)[IF k = 0 THEN Len(cbs) ELSE k - 1]

\* a throwing callback tapped between two marking ones: both marks are on the result
C12_Witness ==
  /\ last.op = "executePreventable"
  /\ Len(hooks[PreventableHookName]) = 3
  /\ hooks[PreventableHookName][2].beh = "throw"
  /\ hooks[PreventableHookName][2].via = "host"
  /\ last.ret = [data |-> <<"x", "y">>, prevented |-> FALSE]

(* ------------------------ plugin dependencies: C13 ---------------------- *)
\* HistoryPlugin <- DependentPlugin <- ChainedPlugin, and the independent GuardPlugin
DependencyPlugins == {"HistoryPlugin", "DependentPlugin", "ChainedPlugin", "GuardPlugin"}

UseAny == UseWith(DependencyPlugins)
UnuseAny == UnuseWith(DependencyPlugins)
TapHost == TapWith({HostTap("afterConnect", "pass")}, 5)

NextDependencies ==
  \/ UseAny
  \/ UnuseAny
  \/ TapHost
  \/ Untap

SpecDependencies == Init /\ [][NextDependencies]_vars

Registered(ps) == {ps[i].name : i \in 1..Len(ps)}
DependenciesOf(name) == PluginDef(name).dependencies

\* C13: every registered plugin has all its dependencies registered; use of a
\* plugin with a missing dependency throws and registers nothing; unuse of a
\* plugin another registered plugin depends on throws and leaves the registry
\* and the hook callbacks as they were.
C13_DependenciesStayRegistered ==
  [][/\ \A n \in Registered(plugins') : DependenciesOf(n) \subseteq Registered(plugins')
     /\ (last'.op = "use" /\ last'.arg \notin Registered(plugins)
         /\ ~(DependenciesOf(last'.arg) \subseteq Registered(plugins)))
        => (last'.ret = "throw" /\ plugins' = plugins /\ hooks' = hooks)
     /\ (last'.op = "unuse" /\ last'.arg \in Registered(plugins)
         /\ \E n \in Registered(plugins) : last'.arg \in DependenciesOf(n))
        => (last'.ret = "throw" /\ plugins' = plugins /\ hooks' = hooks
            /\ hookUnsubscribers' = hookUnsubscribers)]_vars

\* unuse of HistoryPlugin was refused while the whole chain is registered
C13_Witness ==
  /\ last.op = "unuse"
  /\ last.arg = "HistoryPlugin"
  /\ last.ret = "throw"
  /\ Registered(plugins) = DependencyPlugins

(* ----------------------- the view: C15, C16, C17 ------------------------ *)
MaxDen == 2
MaxCoord == 2

\* zoom settings a host constructs the engine with: a range around 1 and a
\* range that starts above 1
ViewConfigs ==
  {[minZoom |-> <<1, 2>>, maxZoom |-> Num(2), zoomStep |-> <<1, 2>>],
   [minZoom |-> <<3, 2>>, maxZoom |-> Num(2), zoomStep |-> <<1, 2>>]}

\* scales a caller asks for: below, inside and above the ranges
AskedScales == {<<1, 4>>, Num(1), Num(3)}
\* points of the container, relative to its top left corner
ViewPoints == {[x |-> Num(0), y |-> Num(0)], [x |-> Num(1), y |-> Num(1)]}
\* the Partial<ViewState> objects handed to setViewState and carried by a saved state
PartialViewStates ==
  {[scale |-> s, translateX |-> t, translateY |-> t] :
     s \in {Absent, <<1, 4>>, Num(3)}, t \in {Absent, Num(1)}}

InitView ==
  /\ InitTopology
  /\ \E config \in ViewConfigs : viewport = NewViewport(config)
  /\ InitPointer(TRUE, Num(20))

InRange(f) == f[2] <= MaxDen /\ Abs(f[1]) <= MaxCoord * f[2]

RECURSIVE viewChangeListener(_, _, _)
\* viewport.on('view:change', ...): the afterViewChange chain runs on each emitted
\* state and its output goes to the onViewChange callback of the host
viewChangeListener(emitted, payloads, tr) ==
  IF emitted = <<>> THEN [payloads |-> payloads, trace |-> tr]
  ELSE LET r == SequentialExecute("afterViewChange", Head(emitted), <<>>, tr)
       IN viewChangeListener(Tail(emitted), Append(payloads, r.data),
                             Append(r.trace, Ev("host", "onViewChange", 0, "", "", <<>>)))

\* a view operation with result r = [vp, emitted] takes effect
ViewCommit(op, arg, r) ==
  LET d == viewChangeListener(r.emitted, <<>>, <<>>)
  IN /\ InRange(r.vp.viewState.translateX)
     /\ InRange(r.vp.viewState.translateY)
     /\ InRange(r.vp.panStart.x)
     /\ InRange(r.vp.panStart.y)
     /\ viewport' = r.vp
     /\ last' = [op |-> op, arg |-> arg, ret |-> d.payloads, trace |-> d.trace, warnings |-> <<>>]

Topology == <<nodes, connections, hooks, plugins, hookUnsubscribers, now, pointer>>

SetZoom ==
  /\ \E scale \in AskedScales : ViewCommit("setZoom", <<>>, setZoom(viewport, scale))
  /\ UNCHANGED Topology
ZoomIn == ViewCommit("zoomIn", <<>>, zoomIn(viewport)) /\ UNCHANGED Topology
ZoomOut == ViewCommit("zoomOut", <<>>, zoomOut(viewport)) /\ UNCHANGED Topology
ZoomAtPoint ==
  /\ \E scale \in AskedScales, p \in ViewPoints :
       ViewCommit("zoomAtPoint", p,
                  zoomAtPoint(viewport, scale, p.x, p.y))
  /\ UNCHANGED Topology
Wheel ==
  /\ \E up \in BOOLEAN, p \in ViewPoints :
       ViewCommit("wheel", <<>>,
                  handleWheel(viewport, up, p.x, p.y))
  /\ UNCHANGED Topology
SetViewState ==
  /\ \E state \in PartialViewStates :
       ViewCommit("setViewState", <<>>, setViewState(viewport, state))
  /\ UNCHANGED Topology
ResetView == ViewCommit("resetView", <<>>, resetView(viewport)) /\ UNCHANGED Topology

\* mouse events on the empty canvas
PanStart ==
  /\ \E p \in ViewPoints :
       ViewCommit("panStart", <<>>, [vp |-> handlePanStart(viewport, p.x, p.y), emitted |-> <<>>])
  /\ UNCHANGED Topology
PanMove ==
  /\ viewport.isPanning
  /\ \E p \in ViewPoints : ViewCommit("panMove", <<>>, handlePanMove(viewport, p.x, p.y))
  /\ UNCHANGED Topology
PanEnd ==
  /\ viewport.isPanning
  /\ ViewCommit("panEnd", <<>>, [vp |-> handlePanEnd(viewport), emitted |-> <<>>])
  /\ UNCHANGED Topology

\* load of a saved state that carries a view state and no connections
LoadViewState ==
  \E vs \in PartialViewStates :
    LET r == load(W0, [connections |-> <<>>, viewState |-> vs], FALSE)
    IN /\ ViewCommit("load", <<>>, setViewState(viewport, vs))
       /\ nodes' = CanonNodes(r.w)
       /\ connections' = CanonConns(r.w)
       /\ UNCHANGED <<hooks, plugins, hookUnsubscribers, now, pointer>>

ViewTaps == {HostTap("afterViewChange", "toOrigin"), HostTap("afterViewChange", "throw")}
TapView == TapWith(ViewTaps, 1)

NextView ==
  \/ SetZoom
  \/ ZoomIn
  \/ ZoomOut
  \/ ZoomAtPoint
  \/ Wheel
  \/ SetViewState
  \/ ResetView
  \/ PanStart
  \/ PanMove
  \/ PanEnd
  \/ LoadViewState
  \/ TapView

SpecView == InitView /\ [][NextView]_vars

ViewOps == {"setZoom", "zoomIn", "zoomOut", "zoomAtPoint", "wheel", "setViewState",
            "resetView", "panMove", "load"}

\* C15: the scale stays within [minZoom, maxZoom] after every view operation.
C15_ScaleWithinRange ==
  last.op \in ViewOps \cup {"panStart", "panEnd"}
  => /\ FLeq(viewport.config.minZoom, viewport.viewState.scale)
     /\ FLeq(viewport.viewState.scale, viewport.config.maxZoom)

\* C16: zoomAtPoint(newScale, px, py) leaves the logical point under (px, py)
\* where it was, also when newScale is clamped.
C16_ZoomKeepsPointFixed ==
  [][last'.op = "zoomAtPoint"
     => screenToWorld(viewport'.viewState, last'.arg.x, last'.arg.y)
        = screenToWorld(viewport.viewState, last'.arg.x, last'.arg.y)]_vars

\* a zoom around (1, 1) asked for more than maxZoom: the scale is maxZoom and
\* the translation has moved
C16_Witness ==
  /\ last.op = "zoomAtPoint"
  /\ last.arg = [x |-> Num(1), y |-> Num(1)]
  /\ viewport.viewState.scale = viewport.config.maxZoom
  /\ viewport.viewState.translateX = Num(-1)

NotificationsIn(l) ==
  Cardinality({i \in 1..Len(l.trace) : l.trace[i].k = "host" /\ l.trace[i].h = "onViewChange"})

\* C17: every view operation delivers exactly one onViewChange notification,
\* its payload is what the afterViewChange chain makes of the applied view
\* state, and the view state itself is the applied one whatever the chain returns.
C17_OneNotificationPerViewChange ==
  last.op \in ViewOps
  => LET cbs == hooks["afterViewChange"]
     IN /\ NotificationsIn(last) = 1
        /\ last.ret = <<SequentialData(cbs, viewport.viewState)[Len(cbs)]>>
        /\ last.op = "resetView"
           => viewport.viewState = [scale |-> Num(1), translateX |-> Num(0), translateY |-> Num(0)]

\* a callback reported the view as not translated; the view is translated
C17_Witness ==
  /\ last.op = "panMove"
  /\ Len(hooks["afterViewChange"]) = 1
  /\ viewport.viewState.translateX = Num(1)
  /\ last.ret = <<[viewport.viewState EXCEPT !.translateX = Num(0), !.translateY = Num(0)]>>

(* --------------------------- node dragging: C14 ------------------------- *)
\* where inside the node the pointer goes down, and where it moves to (client coordinates)
GrabOffsets == {[x |-> Num(1), y |-> Num(1)]}
DragPoints == {[x |-> Num(1), y |-> Num(1)], [x |-> Num(2), y |-> Num(1)], [x |-> Num(3), y |-> Num(3)]}

DragGateTaps == {HostTap("beforeDragStart", "veto"), HostTap("beforeDragStart", "pass")}
TapDragGate == TapWith(DragGateTaps, 1)

\* mousedown on the body of a registered node (bindNodeDragEvents): startDrag
NodeMouseDown ==
  \E id \in RegisteredIds, o \in GrabOffsets :
    LET rect == getBoundingClientRect(positions[id], viewport.viewState)
        r == startDrag(dragHandler, positions, viewport.viewState, id,
                       FAdd(rect.left, o.x), FAdd(rect.top, o.y))
    IN /\ dragHandler' = r.dh
       /\ positions' = r.pos
       /\ last' = [op |-> "nodeMouseDown", arg |-> id, ret |-> <<>>, trace |-> <<>>,
                   warnings |-> <<>>]
       /\ UNCHANGED <<nodes, connections, hooks, plugins, hookUnsubscribers, now,
                      viewport, connectionHandler, snapHandler>>

\* mousemove on the document while a node is dragged
DragMouseMove ==
  /\ dragHandler.isDragging
  /\ \E p \in DragPoints :
       LET pos == dragMouseMove(dragHandler, positions, viewport.viewState, p.x, p.y)
       IN /\ \A id \in NodeIds : InRange(pos[id].x) /\ InRange(pos[id].y)
          /\ positions' = pos
          /\ last' = [op |-> "dragMouseMove", arg |-> dragHandler.draggedNode, ret |-> <<>>,
                      trace |-> <<>>, warnings |-> <<>>]
  /\ UNCHANGED <<nodes, connections, hooks, plugins, hookUnsubscribers, now,
                 viewport, dragHandler, connectionHandler, snapHandler>>

\* mouseup on the document while a node is dragged
DragMouseUp ==
  /\ dragHandler.isDragging
  /\ dragHandler' = dragMouseUp(dragHandler)
  /\ last' = [op |-> "dragMouseUp", arg |-> dragHandler.draggedNode, ret |-> <<>>,
              trace |-> <<>>, warnings |-> <<>>]
  /\ UNCHANGED <<nodes, connections, hooks, plugins, hookUnsubscribers, now,
                 viewport, positions, connectionHandler, snapHandler>>

NextDrag ==
  \/ RegisterNode
  \/ TapDragGate
  \/ NodeMouseDown
  \/ DragMouseMove
  \/ DragMouseUp

SpecDrag == Init /\ [][NextDrag]_vars

\* C14: a beforeDragStart callback is run on pointer-down over a node body, and
\* when it returns false the Node-Drag machine stays idle, so that the node
\* cannot be moved.
C14_DragStartGate ==
  (last.op = "nodeMouseDown" /\ hooks["beforeDragStart"] # <<>>)
  => /\ \E i \in 1..Len(last.trace) : last.trace[i].k = "cb" /\ last.trace[i].h = "beforeDragStart"
     /\ (\E i \in 1..Len(hooks["beforeDragStart"]) : hooks["beforeDragStart"][i].beh = "veto")
        => ~dragHandler.isDragging

(* ------------------- snapping and connection drags: C18, C19 ------------ *)
\* the snap radius the host configures, and pointer positions around the anchors
\* A.left (0,1), A.right (2,1), B.left (4,1), B.right (6,1) of the layout
SnapDistance == Num(2)
SnapPoints ==
  {[x |-> Num(1), y |-> Num(1)], [x |-> Num(2), y |-> Num(1)], [x |-> <<5, 2>>, y |-> Num(1)],
   [x |-> Num(3), y |-> Num(1)], [x |-> Num(5), y |-> Num(1)], [x |-> Num(8), y |-> Num(1)]}
\* where the pointer is moved and released during a connection drag: over A,
\* over B, and away from every node
LinkPoints == {[x |-> Num(1), y |-> Num(1)], [x |-> Num(5), y |-> Num(1)], [x |-> Num(8), y |-> Num(1)]}
\* the node handed to checkSnap as excludeNode: a registered one or a foreign one
ExcludedIds == NodeIds \cup {<<"X">>}

InitLink ==
  /\ InitTopology
  /\ viewport = NewViewport(DefaultConfig)
  /\ \E enableSnap \in BOOLEAN : InitPointer(enableSnap, SnapDistance)

RegisterNodeOrdered ==
  RegisterNodeWith(UnregisteredIds, {BothDots, ArrayDots(<<"right", "left">>)})

\* snapHandler.checkSnap(position, excludeNode) called on its own
CheckSnap ==
  \E p \in SnapPoints, ex \in ExcludedIds :
    LET r == checkSnap(snapHandler, nodes, positions, viewport.viewState, p, ex)
    IN /\ snapHandler' = r.sh
       /\ last' = [op |-> "checkSnap", arg |-> [position |-> p, excludeNode |-> ex],
                   ret |-> r.ret, trace |-> <<>>, warnings |-> <<>>]
       /\ UNCHANGED <<nodes, connections, hooks, plugins, hookUnsubscribers, now,
                      viewport, positions, dragHandler, connectionHandler>>

\* mousedown on an anchor of a registered node (bindDotEvents)
DotMouseDown ==
  \E i \in 1..Len(nodes) :
    \E j \in 1..Len(nodes[i].dots) :
      /\ connectionHandler.tempLines < MaxTempLines
      /\ connectionHandler' = startConnectionDrag(connectionHandler, nodes[i].id, nodes[i].dots[j])
      /\ last' = [op |-> "dotMouseDown", arg |-> nodes[i].id, ret |-> <<>>, trace |-> <<>>,
                  warnings |-> <<>>]
      /\ UNCHANGED <<nodes, connections, hooks, plugins, hookUnsubscribers, now,
                     viewport, positions, dragHandler, snapHandler>>

\* mousemove on the document while a connection is drawn
LinkMouseMove ==
  /\ connectionHandler.isDragging
  /\ \E p \in LinkPoints :
       /\ snapHandler' = connectionMouseMove(connectionHandler, snapHandler, nodes, positions,
                                             viewport.viewState, p.x, p.y)
       /\ last' = [op |-> "linkMouseMove", arg |-> p, ret |-> <<>>, trace |-> <<>>,
                   warnings |-> <<>>]
  /\ UNCHANGED <<nodes, connections, hooks, plugins, hookUnsubscribers, now,
                 viewport, positions, dragHandler, connectionHandler>>

\* this.connectionHandler.on('connection:request', ...): createConnection
connectionRequestListener(W, request) ==
  IF request = NoRequest THEN [w |-> W, ret |-> <<>>]
  ELSE CHOOSE c \in {createConnection(W, W.nodes[i].uid, W.nodes[j].uid,
                                      request.fromDot, request.toDot, FALSE) :
                       i \in {k \in 1..Len(W.nodes) : W.nodes[k].id = request.fromNode},
                       j \in {k \in 1..Len(W.nodes) : W.nodes[k].id = request.toNode}} : TRUE

\* mouseup on the document while a connection is drawn
LinkMouseUp ==
  /\ connectionHandler.isDragging
  /\ \E p \in LinkPoints :
       \E r \in {connectionMouseUp(connectionHandler, snapHandler, nodes, positions,
                                   viewport.viewState, p.x, p.y)} :
        \E c \in {connectionRequestListener(W0, r.request)} :
          /\ connectionHandler' = r.ch
          /\ snapHandler' = r.sh
          /\ CommitTopology(c.w, "linkMouseUp",
                            [point |-> p, startNode |-> connectionHandler.startNode,
                             request |-> r.request], c.ret, <<>>)
  /\ UNCHANGED <<viewport, positions, dragHandler>>

NextSnap ==
  \/ RegisterNodeOrdered
  \/ CheckSnap

SpecSnap == InitLink /\ [][NextSnap]_vars

NextLink ==
  \/ RegisterNode
  \/ DotMouseDown
  \/ LinkMouseMove
  \/ LinkMouseUp

SpecLink == InitLink /\ [][NextLink]_vars

\* the anchors of the registered nodes as <<node index, anchor index>>, their
\* positions and squared distances from a point
Anchors == {<<i, j>> : i \in 1..MaxNodes, j \in 1..2} \cap
           {a \in Nat \X Nat : a[1] <= Len(nodes) /\ a[2] <= Len(nodes[a[1]].dots)}
AnchorPosition(a) ==
  getDotPosition(getBoundingClientRect(positions[nodes[a[1]].id], viewport.viewState),
                 nodes[a[1]].dots[a[2]], viewport.viewState)
AnchorDistance2(a, p) == DistanceSquared(p, AnchorPosition(a))
\* the anchors of nodes other than ex that lie nearer to p than the snap radius
SnapCandidates(p, ex) ==
  {a \in Anchors : /\ nodes[a[1]].id # ex
                   /\ FLess(Num(0), snapHandler.config.snapDistance)
                   /\ FLess(AnchorDistance2(a, p),
                            FMul(snapHandler.config.snapDistance, snapHandler.config.snapDistance))}
Before(a, b) == a[1] < b[1] \/ (a[1] = b[1] /\ a[2] < b[2])
\* the nearest candidate, the first in iteration order among the nearest
BestCandidate(p, ex) ==
  CHOOSE a \in SnapCandidates(p, ex) :
    \A b \in SnapCandidates(p, ex) \ {a} :
      \/ FLess(AnchorDistance2(a, p), AnchorDistance2(b, p))
      \/ (AnchorDistance2(a, p) = AnchorDistance2(b, p) /\ Before(a, b))
ResultOf(a) ==
  [node |-> nodes[a[1]].id, dot |-> nodes[a[1]].dots[a[2]], position |-> AnchorPosition(a)]

\* C18 as stated: checkSnap returns an anchor exactly when an anchor of another
\* node lies nearer than snapDistance, and then the nearest one, the first in
\* iteration order among equally near ones.
C18_SnapIffInRange ==
  last.op = "checkSnap"
  => LET p == last.arg.position
         ex == last.arg.excludeNode
     IN IF SnapCandidates(p, ex) = {} THEN last.ret = NoSnap
        ELSE last.ret = ResultOf(BestCandidate(p, ex))

\* C18: with snapping enabled checkSnap returns an anchor exactly when an anchor
\* of a node other than excludeNode lies nearer than snapDistance, and then the
\* nearest one, the first in iteration order among equally near ones; with
\* snapping disabled it returns none.
C18_SnapWhenEnabled ==
  last.op = "checkSnap"
  => LET p == last.arg.position
         ex == last.arg.excludeNode
     IN IF ~snapHandler.config.enabled \/ SnapCandidates(p, ex) = {} THEN last.ret = NoSnap
        ELSE /\ last.ret = ResultOf(BestCandidate(p, ex))
             /\ last.ret.node # ex

\* B was registered first; A.right is nearer to the point than B.left and wins
C18_Witness ==
  /\ last.op = "checkSnap"
  /\ last.arg = [position |-> [x |-> <<5, 2>>, y |-> Num(1)], excludeNode |-> <<"X">>]
  /\ Len(nodes) = 2
  /\ nodes[1].id = <<"B">>
  /\ last.ret = [node |-> <<"A">>, dot |-> "right", position |-> [x |-> Num(2), y |-> Num(1)]]

\* C19: a connection drag asks for a connection only when the target it resolved
\* is a node other than the source; a drag that ends without snap target over
\* the source node or over no node creates no Connection.
C19_NoRequestWithoutOtherNode ==
  [][last'.op = "linkMouseUp"
     => LET p == last'.arg.point
            over == getNodeAtPosition(nodes, positions, viewport.viewState, p.x, p.y)
            snapped == snapHandler.config.enabled
                       /\ SnapCandidates(screenToWorld(viewport.viewState, p.x, p.y),
                                         connectionHandler.startNode) # {}
        IN /\ last'.arg.request # NoRequest
              => last'.arg.request.toNode \notin {<<>>, connectionHandler.startNode}
           /\ (~snapped /\ over \in {<<>>, connectionHandler.startNode})
              => (last'.arg.request = NoRequest /\ connections' = connections)]_vars

\* a drag from A ended over A itself, out of reach of B's anchors
C19_Witness ==
  /\ last.op = "linkMouseUp"
  /\ last.arg.startNode = <<"A">>
  /\ last.arg.point = [x |-> Num(1), y |-> Num(1)]
  /\ Len(nodes) = 2
  /\ last.arg.request = NoRequest

(* --------------- connect with named anchors (SpecConnect) ---------------- *)
\* SpecConnect: connect(fromId, toId, fromSide, toSide) on nodes that own both
\* sides or only the right one, for registered and unregistered ids
OneOrBothDots == {BothDots, ArrayDots(<<"right">>)}

\* the <<fromDotPosition, toDotPosition>> pairs handed to connect
NamedSides == {<<"right", "left">>, <<"left", "right">>, <<"right", NoDot>>}

RegisterNodeSided == RegisterNodeWith(UnregisteredIds, OneOrBothDots)

\* connect(fromNodeId, toNodeId, fromDotPosition, toDotPosition)
ConnectSides ==
  \E f \in NodeIds, t \in NodeIds, d \in NamedSides :
    \E r \in {connect(W0, f, t, d[1], d[2], FALSE)} :
      Commit(r.w, "connect", [from |-> f, to |-> t, fromSide |-> d[1], toSide |-> d[2]],
             r.ret, <<>>)

NextConnect ==
  \/ RegisterNodeSided
  \/ UnregisterNode
  \/ ConnectSides
  \/ Disconnect

SpecConnect == Init /\ [][NextConnect]_vars

\* the sides the node with this id owns in this node list (none for an unknown id)
SidesOwned(ns, id) ==
  UNION {{ns[i].dots[k] : k \in 1..Len(ns[i].dots)} : i \in {j \in 1..Len(ns) : ns[j].id = id}}

\* a side was named and the node does not own it
NamesMissingSide(ns, id, side) == side # NoDot /\ side \notin SidesOwned(ns, id)

\* C20: a connect call that names an unknown node id, or a side its node does
\* not own, returns undefined and leaves the connection list as it was; a
\* Connection that is created lies on the anchors that were named.
C20_ConnectOnlyNamedAnchors ==
  [][last'.op = "connect" =>
       LET a == last'.arg
       IN /\ (\/ a.from \notin RegisteredIds
              \/ a.to \notin RegisteredIds
              \/ NamesMissingSide(nodes, a.from, a.fromSide)
              \/ NamesMissingSide(nodes, a.to, a.toSide))
             => (last'.ret = <<>> /\ connections' = connections)
          /\ Len(connections') > Len(connections)
             => LET c == connections'[Len(connections')]
                IN /\ (a.fromSide # NoDot => c.fromDot = a.fromSide)
                   /\ (a.toSide # NoDot => c.toDot = a.toSide)]_vars

(* ------------- creation, removal and silence (SpecCreate) ---------------- *)
\* SpecCreate: registerNode for any id with both sides or with none named,
\* connect and disconnect with and without {silent: true}, destroy, and host
\* callbacks on beforeConnect (rewrites the target side), afterConnect (returns
\* false, or throws)
CreateTaps == {HostTap("beforeConnect", "toRight"), HostTap("afterConnect", "veto"),
               HostTap("afterConnect", "throw")}
BothOrOmitted == {BothDots, OmittedDots}
CrossedSides == {<<"right", "left">>, <<"left", "right">>}
DestroyOptions == {SilentOmitted, SilentOption(FALSE)}

\* registerNode(id, element, options) for any id, registered or not
RegisterNodeAny ==
  \E id \in NodeIds, opt \in BothOrOmitted :
    \E r \in {registerNode(W0, id, opt)} :
      Commit(r.w, "registerNode", [id |-> id, options |-> opt], r.ret, <<>>)

\* connect(fromNodeId, toNodeId, fromDotPosition, toDotPosition, {silent}) for two
\* registered nodes
ConnectSilently ==
  \E f \in RegisteredIds : \E t \in RegisteredIds \ {f}, d \in CrossedSides, silent \in BOOLEAN :
    \E r \in {connect(W0, f, t, d[1], d[2], silent)} :
      Commit(r.w, "connect",
             [from |-> f, to |-> t, fromSide |-> d[1], toSide |-> d[2], silent |-> silent],
             r.ret, <<>>)

\* disconnect(connectionId, {silent})
DisconnectSilently ==
  \E i \in 1..Len(connections), silent \in BOOLEAN :
    Commit(disconnectOne(W0, connections[i].id, silent), "disconnect",
           [id |-> connections[i].id, silent |-> silent], <<>>, <<>>)

\* disconnect(undefined, {silent})
DisconnectAllSilently ==
  \E silent \in BOOLEAN :
    Commit(disconnectAll(W0, silent), "disconnectAll", [silent |-> silent], <<>>, <<>>)

\* destroy(options); the engine the host goes on with is a new one
Destroy ==
  \E o \in DestroyOptions :
    /\ hooks' = [h \in HookNames |-> <<>>]
    /\ plugins' = <<>>
    /\ hookUnsubscribers' = [n \in PluginNames |-> <<>>]
    /\ \E W \in {destroy(W0, o)} :
         /\ nodes' = W.nodes
         /\ connections' = W.conns
         /\ last' = [op |-> "destroy", arg |-> o, ret |-> <<>>, trace |-> W.trace,
                     warnings |-> <<>>]
    /\ UNCHANGED <<now, ui>>

TapCreate == TapWith(CreateTaps, MaxTaps)

NextCreate ==
  \/ RegisterNodeAny
  \/ UnregisterNode
  \/ ConnectSilently
  \/ DisconnectSilently
  \/ DisconnectAllSilently
  \/ Destroy
  \/ TapCreate

SpecCreate == Init /\ [][NextCreate]_vars

\* the index in the node list of the node with this id, 0 when there is none
IndexOfId(ns, id) == FirstIndex({k \in 1..Len(ns) : ns[k].id = id})

\* the parameters a connect call that names both sides hands to beforeConnect
NamedParams(a) ==
  [fromNode |-> IndexOfId(nodes, a.from), toNode |-> IndexOfId(nodes, a.to),
   fromId |-> a.from, toId |-> a.to, fromDot |-> a.fromSide, toDot |-> a.toSide]

\* a connect call names sides its nodes own
NamesOwnedSides(a) ==
  /\ \E i \in 1..Len(nodes) : nodes[i].id = a.from /\ a.fromSide \in Range(nodes[i].dots)
  /\ \E i \in 1..Len(nodes) : nodes[i].id = a.to /\ a.toSide \in Range(nodes[i].dots)

\* the parameters as the beforeConnect callbacks leave them
RewrittenParams(a) ==
  PreventableData(hooks["beforeConnect"], NamedParams(a))[Len(hooks["beforeConnect"])]

\* C21: a connect call whose endpoints, as the beforeConnect callbacks leave
\* them, are those of a Connection of the connection list (in either direction)
\* returns undefined, leaves the connection list and the nodes' connection lists
\* as they were, and runs neither the afterConnect hook nor the host's
\* onConnect callback nor the 'connect' event.
C21_DuplicateIsRejected ==
  [][(/\ last'.op = "connect"
      /\ NamesOwnedSides(last'.arg)
      /\ FirstFalse(hooks["beforeConnect"], NamedParams(last'.arg)) = 0
      /\ \E i \in 1..Len(connections) :
           SameEndpoints(connections[i], RewrittenParams(last'.arg)))
     => (/\ last'.ret = <<>>
         /\ connections' = connections
         /\ nodes' = nodes
         /\ ~LoggedIn(last', "insert", "")
         /\ ~LoggedIn(last', "exec", "afterConnect")
         /\ ~LoggedIn(last', "host", "onConnect")
         /\ ~LoggedIn(last', "emit", "connect"))]_vars

\* C21 witness: a connect of B.left -> A.left, rewritten by a callback to
\* B.left -> A.right, met the Connection A.right -> B.left and was rejected, with
\* a callback waiting on afterConnect
C21_Witness ==
  /\ last.op = "connect"
  /\ last.arg.from = <<"B">> /\ last.arg.toSide = "left"
  /\ CallbackReturned("beforeConnect", "value")
  /\ Logged("warn", "duplicate")
  /\ Len(connections) = 1
  /\ connections[1].fromId = <<"A">> /\ connections[1].toDot = "left"

\* C22: a registerNode call without anchor sides gives the node [right] when
\* it is the first registration on the engine, and [left] when a node was
\* registered before it: when the node list is not empty, and also when the
\* node list was just emptied by unregisterNode.
C22_OnlyFirstEverGetsRight ==
  [][(/\ last'.op = "registerNode"
      /\ last'.arg.options = OmittedDots
      /\ last'.ret # <<>>)
     => LET dots == nodes'[Len(nodes')].dots
        IN /\ last.op = "init" => dots = <<"right">>
           /\ (Len(nodes) >= 1 \/ (last.op = "unregisterNode" /\ last.ret = TRUE))
                => dots = <<"left">>]_vars

\* C23: no two nodes of the node list have the same id; a registerNode call
\* with an id that is registered returns undefined, runs no hook and emits no
\* event, and leaves the node list (the node's anchors with it) and the
\* connection list as they were.
C23_NodeIdsUnique ==
  [][/\ \A i, j \in 1..Len(nodes') : nodes'[i].id = nodes'[j].id => i = j
     /\ (last'.op = "registerNode" /\ last'.arg.id \in RegisteredIds)
          => /\ last'.ret = <<>>
             /\ nodes' = nodes
             /\ connections' = connections
             /\ \A k \in 1..Len(last'.trace) : last'.trace[k].k \notin {"exec", "cb", "emit"}]_vars

\* C23 witness: registerNode('A') without sides was refused while A, registered
\* with both sides, had a Connection
C23_Witness ==
  /\ last.op = "registerNode"
  /\ last.arg = [id |-> <<"A">>, options |-> OmittedDots]
  /\ last.ret = <<>>
  /\ \E i \in 1..Len(nodes) : nodes[i].id = <<"A">> /\ nodes[i].dots = <<"left", "right">>
  /\ Len(connections) >= 1

RECURSIVE WithoutNotifications(_)
\* a log without its host callback and public event entries
WithoutNotifications(tr) ==
  IF tr = <<>> THEN <<>>
  ELSE IF Head(tr).k \in {"host", "emit"} THEN WithoutNotifications(Tail(tr))
       ELSE <<Head(tr)>> \o WithoutNotifications(Tail(tr))

\* a call left the engine as W and its log, notifications aside, as that of W
SameButQuiet(W) ==
  /\ nodes' = CanonNodes(W)
  /\ connections' = CanonConns(W)
  /\ last'.trace = WithoutNotifications(W.trace)

\* C24: connect, disconnect(id) and disconnect() called with {silent: true}
\* leave the node list, the connection list and the log of hooks and callbacks
\* run as the same call without it does, and neither call the host's
\* onConnect/onDisconnect callback nor emit 'connect'/'disconnect'; destroy()
\* without options removes every Connection without either.
C24_SilentOnlySilences ==
  [][LET a == last'.arg
     IN /\ (last'.op = "connect" /\ a.silent)
             => \E r \in {connect(W0, a.from, a.to, a.fromSide, a.toSide, FALSE)} :
                  SameButQuiet(r.w) /\ last'.ret = r.ret
        /\ (last'.op = "disconnect" /\ a.silent)
             => SameButQuiet(disconnectOne(W0, a.id, FALSE))
        /\ (last'.op = "disconnectAll" /\ a.silent)
             => SameButQuiet(disconnectAll(W0, FALSE))
        /\ (last'.op = "destroy" /\ a = SilentOmitted)
             => /\ connections' = <<>>
                /\ last'.trace = WithoutNotifications(last'.trace)]_vars

\* C24 witness: a silent connect created a Connection while a callback was
\* tapped on afterConnect and ran
C24_Witness ==
  /\ last.op = "connect"
  /\ last.arg.silent
  /\ last.ret # <<>>
  /\ CallbackReturned("afterConnect", "false")
  /\ ~Logged("host", "onConnect")

\* C26: a connect call that names sides its nodes own, that no beforeConnect
\* callback vetoes and whose endpoints, as those callbacks leave them, are not
\* those of a Connection of the list, returns a Connection with these endpoints
\* that is in the connection list when the call returns, whatever the
\* afterConnect callbacks return or throw.
C26_AfterConnectCannotUndo ==
  [][(/\ last'.op = "connect"
      /\ NamesOwnedSides(last'.arg)
      /\ FirstFalse(hooks["beforeConnect"], NamedParams(last'.arg)) = 0
      /\ \A i \in 1..Len(connections) :
           ~SameEndpoints(connections[i], RewrittenParams(last'.arg)))
     => (/\ last'.ret # <<>>
         /\ Len(connections') = Len(connections) + 1
         /\ \E k \in 1..Len(connections') :
              /\ connections'[k].id = last'.ret
              /\ TupleOf(connections'[k]) = TupleOf(RewrittenParams(last'.arg)))]_vars

\* C26 witness: a connect created a Connection although one afterConnect
\* callback returned false and another one threw
C26_Witness ==
  /\ last.op = "connect"
  /\ last.ret # <<>>
  /\ CallbackReturned("afterConnect", "false")
  /\ CallbackReturned("afterConnect", "throw")
  /\ \E k \in 1..Len(connections) : connections[k].id = last.ret

\* positions in the log of the last call of the entries of kind k and name h
Pos(k, h) == {i \in 1..Len(last.trace) : last.trace[i].k = k /\ last.trace[i].h = h}
\* every position of S comes before every position of T
AllBefore(S, T) == \A i \in S, j \in T : i < j
\* the hook h ran once, with each of its callbacks once
RanOnce(h) ==
  /\ Cardinality(Pos("exec", h)) = 1
  /\ Cardinality(Pos("cb", h)) = Len(hooks[h])
  /\ AllBefore(Pos("exec", h), Pos("cb", h))
\* the steps before -> change -> after -> host callback -> event of a call
StepsInOrder(before, change, after, callback, event) ==
  /\ RanOnce(before) /\ RanOnce(after)
  /\ Cardinality(Pos(change, "")) = 1
  /\ Cardinality(Pos("host", callback)) = 1
  /\ Cardinality(Pos("emit", event)) = 1
  /\ AllBefore(Pos("exec", before) \cup Pos("cb", before), Pos(change, ""))
  /\ AllBefore(Pos(change, ""), Pos("exec", after) \cup Pos("cb", after))
  /\ AllBefore(Pos("exec", after) \cup Pos("cb", after), Pos("host", callback))
  /\ AllBefore(Pos("host", callback), Pos("emit", event))
  /\ Pos("emit", event) = {Len(last.trace)}

\* C30: the log of a connect that created a Connection without {silent: true}
\* holds, in this order, the beforeConnect callbacks, the insertion of the
\* Connection, the afterConnect callbacks, the host's onConnect callback and the
\* 'connect' event, each once and the event last; the log of a disconnect(id)
\* that removed a Connection holds beforeDisconnect, the removal,
\* afterDisconnect, onDisconnect and the 'disconnect' event in the same way.
C30_StepsInOrder ==
  /\ (last.op = "connect" /\ last.ret # <<>> /\ ~last.arg.silent)
       => StepsInOrder("beforeConnect", "insert", "afterConnect", "onConnect", "connect")
  /\ (last.op = "disconnect" /\ ~last.arg.silent)
       => StepsInOrder("beforeDisconnect", "remove", "afterDisconnect", "onDisconnect",
                       "disconnect")

\* C30 witness: a connect that was not silent created a Connection with one
\* callback tapped on beforeConnect and one on afterConnect
C30_Witness ==
  /\ last.op = "connect"
  /\ last.ret # <<>>
  /\ ~last.arg.silent
  /\ Len(hooks["beforeConnect"]) = 1
  /\ Len(hooks["afterConnect"]) = 1
  /\ Cardinality(Pos("cb", "afterConnect")) = 1

\* the Connections of the connection list that have the node with this id as an
\* endpoint, as getNodeConnections(nodeId) lists them
getNodeConnections(cs, nodeId) == ConnectionsOfNode(cs, nodeId)

\* C25: the connection list of every registered node holds, each once, exactly
\* the Connections of the global list that have the node as an endpoint, so that
\* it agrees with getNodeConnections for that node.
C25_NodeListsAgree ==
  \A n \in 1..Len(nodes) :
    LET own == nodes[n].conns
        listed == getNodeConnections(connections, nodes[n].id)
    IN /\ \A i, j \in 1..Len(own) : own[i] = own[j] => i = j
       /\ Range(own) = {listed[k].uid : k \in 1..Len(listed)}

(* --------- calls made from inside a callback (SpecReentrant) ------------- *)
\* SpecReentrant: disconnect(id) and unregisterNode(id) while the host has
\* tapped one callback that itself disconnects, or unregisters, the first entry
ReentrantTaps == {HostTap("beforeDisconnect", "dropFirst"),
                  HostTap("beforeNodeRemove", "dropFirstNode")}

TapReentrant == TapWith(ReentrantTaps, 1)

\* disconnect(connectionId)
DisconnectReentrant ==
  \E i \in 1..Len(connections) :
    \E W \in {disconnectReentrant(W0, connections[i].id, FALSE)} :
      Commit(W, "disconnect", connections[i].id, <<>>, <<>>)

\* unregisterNode(nodeId)
UnregisterNodeReentrant ==
  \E i \in 1..Len(nodes) :
    \E r \in {unregisterNodeReentrant(W0, nodes[i].id)} :
      Commit(r.w, "unregisterNode", nodes[i].id, r.ret, <<>>)

NextReentrant ==
  \/ RegisterNode
  \/ Connect
  \/ TapReentrant
  \/ Untap
  \/ DisconnectReentrant
  \/ UnregisterNodeReentrant

SpecReentrant == Init /\ [][NextReentrant]_vars

\* C27: after disconnect(id), made while no callback vetoes, the Connection with
\* that id is neither in the connection list nor in a node's connection list,
\* also when a beforeDisconnect callback disconnected another Connection during
\* the call.
C27_DisconnectRemovesTheOneNamed ==
  [][last'.op = "disconnect" =>
       /\ \A k \in 1..Len(connections') : connections'[k].id # last'.arg
       /\ \A n \in 1..Len(nodes') : \A j \in 1..Len(nodes'[n].conns) :
            nodes'[n].conns[j] # 0]_vars

\* C28: after unregisterNode(id) returned true the node list holds no node with
\* that id, also when a beforeNodeRemove callback unregistered another node
\* during the call.
C28_UnregisterRemovesTheOneNamed ==
  (last.op = "unregisterNode" /\ last.ret = TRUE)
    => \A n \in 1..Len(nodes) : nodes[n].id # last.arg

(* ------------- untapping while a hook executes (SpecLive) ---------------- *)
\* SpecLive: up to MaxChain named callbacks on a SequentialHook or on a
\* PreventableHook, some of which untap themselves or the callback h1 when
\* they run, and execute
LiveNames == {"h1", "h2", "h3"}
LiveBehaviours == {"pass", "untapSelf", "untapH1"}

\* hook.tap(callback) of a callback that is not tapped yet
TapLive ==
  \E h \in {SequentialHookName, PreventableHookName}, name \in LiveNames, beh \in LiveBehaviours :
    /\ TotalTaps(hooks, HookNames) < MaxChain
    /\ \A g \in HookNames : \A k \in 1..Len(hooks[g]) : hooks[g][k].owner # name
    /\ hooks' = tap(hooks, h, [owner |-> name, beh |-> beh, via |-> "host"])
    /\ Idle("tap", h, 0)
    /\ UNCHANGED <<nodes, connections, plugins, hookUnsubscribers, now>>

\* hook.execute(data)
ExecuteLive ==
  \E h \in {SequentialHookName, PreventableHookName} :
    \E r \in {executeLive(hooks[h], 1, <<>>)} :
      /\ hooks' = [hooks EXCEPT ![h] = r.callbacks]
      /\ Idle("execute", h, r.ran)
      /\ UNCHANGED <<nodes, connections, plugins, hookUnsubscribers, now>>

NextLive ==
  \/ TapLive
  \/ ExecuteLive

SpecLive == Init /\ [][NextLive]_vars

\* the callback at index i of cbs is untapped by another callback of cbs
UntappedByAnother(cbs, i) ==
  \E j \in 1..Len(cbs) : j # i /\ cbs[j].beh = "untapH1" /\ cbs[i].owner = "h1"

\* C29: an execute invokes exactly once every callback that was registered on
\* the hook when it started and that no other callback untaps, also when
\* callbacks untap themselves while the chain is running.
C29_NoCallbackSkipped ==
  [][last'.op = "execute" =>
       LET cbs == hooks[last'.arg]
       IN \A i \in 1..Len(cbs) :
            ~UntappedByAnother(cbs, i)
              => Cardinality({p \in 1..Len(last'.ret) : last'.ret[p] = cbs[i].owner}) = 1]_vars

(* ------- pointer-down, -move and -up on the document (SpecPointer) ------ *)
\* SpecPointer: two nodes with both anchors, the three pointer interactions
\* driven by the mouse events the browser delivers, and stopDrag on both drag
\* handlers. A mousedown on an anchor or on a node body is taken by the listener
\* of that element, which stops its propagation; a mousedown elsewhere reaches
\* the container. A mousemove or mouseup on the document is delivered to every
\* listener bound at the time: first to the pan listeners, bound at
\* construction, then to the listeners of the drag handlers. The document calls
\* those two in the order they were bound; the model follows both orders when
\* both are bound.
MaxShift == 1

\* where the pointer goes down on the canvas, and where it moves and is
\* released: on A.right, out of reach of the anchors of B; over B, in reach of
\* B.left; and away from every node
CanvasPoints == {[x |-> Num(8), y |-> Num(1)]}
PointerPoints ==
  {[x |-> Num(2), y |-> Num(1)], [x |-> Num(5), y |-> Num(1)], [x |-> Num(9), y |-> Num(1)]}

\* the exploration keeps the view and node A within MaxShift of their places,
\* and node B in its place
ShiftInRange(vp) ==
  /\ vp.viewState.translateX[2] = 1 /\ Abs(vp.viewState.translateX[1]) <= MaxShift
  /\ vp.viewState.translateY = Num(0)
PlaceInRange(pos) ==
  /\ pos[<<"A">>].x[2] = 1
  /\ Abs(pos[<<"A">>].x[1] - NodeLayout[<<"A">>].x[1]) <= MaxShift
  /\ pos[<<"A">>].y = Num(0)
  /\ pos[<<"B">>] = NodeLayout[<<"B">>]

PointerEvent(op, arg) ==
  last' = [op |-> op, arg |-> arg, ret |-> <<>>, trace |-> <<>>, warnings |-> <<>>]

\* the anchors the pointer goes down on: A.right and B.left
PressedAnchors == {[node |-> <<"A">>, dot |-> "right"], [node |-> <<"B">>, dot |-> "left"]}

\* mousedown on an anchor of a registered node (bindDotEvents)
AnchorMouseDown ==
  \E a \in PressedAnchors :
    /\ a.node \in RegisteredIds
    /\ connectionHandler.tempLines < MaxTempLines
    /\ connectionHandler' = startConnectionDrag(connectionHandler, a.node, a.dot)
    /\ PointerEvent("dotMouseDown", a.node)
    /\ UNCHANGED <<nodes, connections, hooks, plugins, hookUnsubscribers, now,
                   viewport, positions, dragHandler, snapHandler>>

\* mousedown on the container, away from every node and anchor
CanvasMouseDown ==
  \E p \in CanvasPoints :
    /\ getNodeAtPosition(nodes, positions, viewport.viewState, p.x, p.y) = <<>>
    /\ viewport' = containerMouseDown(viewport, dragHandler, connectionHandler, nodes,
                                      positions, p.x, p.y)
    /\ PointerEvent("canvasMouseDown", <<>>)
    /\ UNCHANGED <<nodes, connections, hooks, plugins, hookUnsubscribers, now, pointer>>

\* mousemove on the document
DocumentMouseMove ==
  \E p \in PointerPoints,
     dragFirst \in IF dragHandler.listening /\ connectionHandler.listening
                   THEN BOOLEAN ELSE {TRUE} :
    \E v \in {handlePanMove(viewport, p.x, p.y).vp} :
      \E pos \in {documentDragMove(dragHandler, positions, v.viewState, p.x, p.y)} :
        /\ ShiftInRange(v)
        /\ PlaceInRange(pos)
        /\ viewport' = v
        /\ positions' = pos
        /\ snapHandler' = documentLinkMove(connectionHandler, snapHandler, nodes,
                                           IF dragFirst THEN pos ELSE positions,
                                           v.viewState, p.x, p.y)
        /\ CommitTopology(IF dragHandler.listening /\ dragHandler.isDragging
                          THEN updateNodeConnections(W0, dragHandler.draggedNode) ELSE W0,
                          "mouseMove", [dragged |-> dragHandler.draggedNode],
                          <<>>, <<>>)
        /\ UNCHANGED <<dragHandler, connectionHandler>>

\* mouseup on the document
DocumentMouseUp ==
  \E p \in PointerPoints :
    \E r \in {documentLinkUp(connectionHandler, snapHandler, nodes, positions,
                             viewport.viewState, p.x, p.y)} :
      \E c \in {connectionRequestListener(W0, r.request)} :
        /\ viewport' = IF viewport.isPanning THEN handlePanEnd(viewport) ELSE viewport
        /\ dragHandler' = documentDragUp(dragHandler)
        /\ connectionHandler' = r.ch
        /\ snapHandler' = r.sh
        /\ CommitTopology(c.w, "mouseUp",
                          [startNode |-> connectionHandler.startNode, request |-> r.request], c.ret, <<>>)
        /\ UNCHANGED positions

\* dragHandler.stopDrag()
StopNodeDrag ==
  /\ dragHandler' = dragStopDrag(dragHandler)
  /\ PointerEvent("stopNodeDrag", dragHandler.draggedNode)
  /\ UNCHANGED <<nodes, connections, hooks, plugins, hookUnsubscribers, now,
                 viewport, positions, connectionHandler, snapHandler>>

\* connectionHandler.stopDrag(): it emits no event, so no listener of the
\* engine runs; what it would ask for is kept in last.arg.request
StopConnectionDrag ==
  \E r \in {connectionStopDrag(connectionHandler, snapHandler)} :
    /\ connectionHandler' = r.ch
    /\ snapHandler' = r.sh
    /\ PointerEvent("stopConnectionDrag",
                    [snapTarget |-> snapHandler.snapTarget, request |-> r.request])
    /\ UNCHANGED <<nodes, connections, hooks, plugins, hookUnsubscribers, now,
                   viewport, positions, dragHandler>>

\* registerNode for the ids in the order A, B
RegisterNodeInTurn ==
  RegisterNodeWith({id \in UnregisteredIds : id = <<"A">> \/ <<"A">> \in RegisteredIds},
                   {BothDots})

InitPointerSpec ==
  /\ InitTopology
  /\ viewport = NewViewport(DefaultConfig)
  /\ InitPointer(TRUE, SnapDistance)

NextPointer ==
  \/ RegisterNodeInTurn
  \/ AnchorMouseDown
  \/ NodeMouseDown
  \/ CanvasMouseDown
  \/ DocumentMouseMove
  \/ DocumentMouseUp
  \/ StopNodeDrag
  \/ StopConnectionDrag

SpecPointer == InitPointerSpec /\ [][NextPointer]_vars

\* the Connection-Drag machine at rest
ConnectionDragIdle(ch, sh) ==
  /\ ~ch.isDragging
  /\ ch.startNode = <<>>
  /\ ch.startDot = NoDot
  /\ ~ch.tempLine
  /\ ~ch.listening
  /\ ~sh.isSnapped
  /\ sh.snapTarget = <<>>
  /\ sh.snapTargetDot = NoDot

\* C31: when the Connection-Drag machine leaves the drawing state, by mouseup or
\* by stopDrag, it is fully idle: isDragging is false, the source node and
\* anchor are cleared, the curve it held is removed from the drawing and
\* forgotten, the snap detector holds no target, and the document listeners
\* are unbound.
C31_LeftDrawingIsIdle ==
  [][(connectionHandler.isDragging /\ last'.op \in {"mouseUp", "stopConnectionDrag"})
     => /\ ConnectionDragIdle(connectionHandler', snapHandler')
        /\ connectionHandler'.tempLines = connectionHandler.tempLines - 1]_vars

\* a drag from A was released in reach of B.left and asked for a connection
C31_Witness ==
  /\ last.op = "mouseUp"
  /\ last.arg.startNode = <<"A">>
  /\ last.arg.request.toNode = <<"B">>
  /\ ConnectionDragIdle(connectionHandler, snapHandler)

\* the Node-Drag machine at rest
NodeDragIdle(dh) == ~dh.isDragging /\ dh.draggedNode = <<>> /\ ~dh.listening

\* C32: stopDrag cancels at once and creates nothing. On a connection drag it
\* asks for no connection and leaves the connection list as it was, whatever
\* the snap target; on a node drag it leaves the Node-Drag machine idle, and a
\* pointer-move that comes while that machine is idle moves no node.
C32_StopDragCancels ==
  [][/\ last'.op = "stopConnectionDrag"
        => (last'.arg.request = NoRequest /\ connections' = connections /\ nodes' = nodes)
     /\ last'.op = "stopNodeDrag" => NodeDragIdle(dragHandler')
     /\ (last'.op = "mouseMove" /\ NodeDragIdle(dragHandler)) => positions' = positions]_vars

\* stopDrag came while the pointer was snapped to an anchor of B
C32_Witness ==
  /\ last.op = "stopConnectionDrag"
  /\ last.arg.snapTarget = <<"B">>
  /\ last.arg.request = NoRequest
  /\ ~connectionHandler.isDragging

\* what a node drag may not touch
SameButPlaces ==
  /\ nodes' = nodes
  /\ connections' = connections
  /\ viewport'.viewState = viewport.viewState

\* C33: a node drag changes only the position of the dragged node: the node
\* list with its anchors, the connection list with its endpoints and the view
\* state are after each of its steps what they were before; and the connection
\* list changes during a connection drag only on mouseup, by the one Connection
\* the drag asked for.
C33_DragsKeepTheTopology ==
  [][/\ last'.op = "nodeMouseDown"
        => (SameButPlaces /\ \A id \in NodeIds \ {last'.arg} : positions'[id] = positions[id])
     /\ (last'.op = "mouseMove" /\ dragHandler.isDragging /\ ~viewport.isPanning)
        => (SameButPlaces
            /\ \A id \in NodeIds \ {dragHandler.draggedNode} : positions'[id] = positions[id])
     /\ (last'.op = "mouseUp" /\ dragHandler.isDragging /\ ~connectionHandler.isDragging)
        => (SameButPlaces /\ positions' = positions /\ NodeDragIdle(dragHandler'))
     /\ last'.op = "stopNodeDrag" => (SameButPlaces /\ positions' = positions)
     /\ connections' # connections
        => /\ last'.op = "mouseUp"
           /\ connectionHandler.isDragging
           /\ last'.arg.request # NoRequest
           /\ Len(connections') = Len(connections) + 1
           /\ \A i \in 1..Len(connections) : connections'[i] = connections[i]
           /\ nodes'[connections'[Len(connections')].fromNode].id = last'.arg.request.fromNode
           /\ nodes'[connections'[Len(connections')].toNode].id = last'.arg.request.toNode]_vars

\* node A, an end of a Connection, was moved away from its place by a drag
C33_Witness ==
  /\ last.op = "mouseMove"
  /\ last.arg.dragged = <<"A">>
  /\ positions[<<"A">>] # NodeLayout[<<"A">>]
  /\ Len(connections) = 1

\* C38: at most one of the three pointer interactions (canvas pan, node drag,
\* connection drag) is active at any moment.
C38_OneInteractionAtATime ==
  /\ ~(viewport.isPanning /\ dragHandler.isDragging)
  /\ ~(viewport.isPanning /\ connectionHandler.isDragging)
  /\ ~(dragHandler.isDragging /\ connectionHandler.isDragging)

\* C39: at most one tentative curve exists at any time, and none while the
\* Connection-Drag machine is idle.
C39_OneTentativeCurve ==
  /\ connectionHandler.tempLines <= 1
  /\ ~connectionHandler.isDragging => connectionHandler.tempLines = 0

(* -------------- anchors chosen by createConnection (SpecAuto) ----------- *)
\* SpecAuto: nodes that own both anchors, one, or none, and createConnection
\* called without anchors; no callback is tapped, so the anchors of a
\* Connection are the ones createConnection chose
AnyDots ==
  {BothDots, OmittedDots, ArrayDots(<<"right">>), ArrayDots(<<"left">>),
   ArrayDots(<<"right", "left">>), ArrayDots(<<>>)}
RegisterNodeAnyDots == RegisterNodeWith(UnregisteredIds, AnyDots)

NextAuto ==
  \/ RegisterNodeAnyDots
  \/ UnregisterNode
  \/ CreateConnection
  \/ Disconnect

SpecAuto == Init /\ [][NextAuto]_vars

\* the first of the sides first, second that the node owns, else the first
\* anchor it owns, else none
Preferred(dots, first, second) ==
  IF \E i \in 1..Len(dots) : dots[i] = first THEN first
  ELSE IF \E i \in 1..Len(dots) : dots[i] = second THEN second
  ELSE IF dots # <<>> THEN dots[1]
  ELSE NoDot

\* C34: createConnection called without an anchor chooses the right anchor of
\* the source node if it has one, else its left one, else any it owns, and the
\* left anchor of the target node if it has one, else its right one, else any
\* it owns; when a node owns no anchor no Connection is created and undefined
\* is returned.
C34_AutoSelect ==
  last.op = "createConnection"
  => LET from == nodes[IndexOfId(nodes, last.arg[1])]
         to == nodes[IndexOfId(nodes, last.arg[2])]
         fromDot == Preferred(from.dots, "right", "left")
         toDot == Preferred(to.dots, "left", "right")
     IN IF fromDot = NoDot \/ toDot = NoDot
        THEN /\ last.ret = <<>>
             /\ \A k \in 1..Len(last.trace) : last.trace[k].k # "insert"
        ELSE \A i \in 1..Len(connections) :
               connections[i].id = last.ret
               => (connections[i].fromDot = fromDot /\ connections[i].toDot = toDot)

\* the source owns only a left anchor and the target only a right one
C34_Witness ==
  /\ last.op = "createConnection"
  /\ last.ret # <<>>
  /\ nodes[IndexOfId(nodes, last.arg[1])].dots = <<"left">>
  /\ nodes[IndexOfId(nodes, last.arg[2])].dots = <<"right">>
  /\ \E i \in 1..Len(connections) :
       /\ connections[i].id = last.ret
       /\ connections[i].fromDot = "left"
       /\ connections[i].toDot = "right"

(* ------------------- teardown of a tapped engine (SpecDestroy) ---------- *)
\* SpecDestroy: an engine with Connections, host callbacks on the disconnect
\* hooks and plugins that tap hooks, and destroy()
TapTeardown == TapWith(DisconnectTaps, 1)

\* destroy(options); last.arg keeps how many callbacks and plugins the engine
\* held when it was called
DestroyEngine ==
  \E o \in DestroyOptions :
    /\ hooks' = [h \in HookNames |-> <<>>]
    /\ plugins' = <<>>
    /\ hookUnsubscribers' = [n \in PluginNames |-> <<>>]
    /\ \E W \in {destroy(W0, o)} :
         /\ nodes' = W.nodes
         /\ connections' = W.conns
         /\ last' = [op |-> "destroyEngine",
                     arg |-> [options |-> o, callbacks |-> TotalTaps(hooks, HookNames),
                              plugins |-> Len(plugins)],
                     ret |-> <<>>, trace |-> W.trace, warnings |-> <<>>]
    /\ UNCHANGED <<now, ui>>

NextDestroy ==
  \/ RegisterNode
  \/ ConnectAuto
  \/ TapTeardown
  \/ Use
  \/ DestroyEngine

SpecDestroy == Init /\ [][NextDestroy]_vars

\* C35: after destroy() every hook has zero callbacks, no plugin is left, and
\* the node and connection lists are empty; no hook callback of a plugin or of
\* the host is invoked for the Connections the teardown removes.
C35_DestroyLeavesNothing ==
  last.op = "destroyEngine"
  => /\ \A h \in HookNames : hooks[h] = <<>>
     /\ plugins = <<>>
     /\ nodes = <<>>
     /\ connections = <<>>
     /\ \A k \in 1..Len(last.trace) : last.trace[k].k # "cb"

\* the engine destroyed held a Connection, a plugin and tapped callbacks
C35_Witness ==
  /\ last.op = "destroyEngine"
  /\ last.arg.callbacks > 1
  /\ last.arg.plugins > 0
  /\ \E k \in 1..Len(last.trace) : last.trace[k].k = "remove"
  /\ \A h \in HookNames : hooks[h] = <<>>

(* ------------------- a plugin whose install throws (SpecInstall) -------- *)
\* SpecInstall: plugins are used and unused, one of them throws in install
InstallPlugins == {"FailingPlugin", "HistoryPlugin", "GuardPlugin"}

UseInstall == UseWith(InstallPlugins)

UnuseInstall == UnuseWith(InstallPlugins)

NextInstall ==
  \/ RegisterNode
  \/ ConnectAuto
  \/ Disconnect
  \/ UseInstall
  \/ UnuseInstall

SpecInstall == Init /\ [][NextInstall]_vars

\* callbacks of a plugin on all hooks
OwnedBy(name) ==
  {<<h, i>> \in HookNames \X (1..MaxTaps) : i <= Len(hooks[h]) /\ hooks[h][i].owner = name}

\* C36: after use() of a plugin whose install throws, hasPlugin(name) is false
\* and no hook holds a callback of that plugin, from a shorthand method or from
\* a tap made inside install; use() itself returns.
C36_FailedInstallLeavesNothing ==
  (last.op = "use" /\ last.ret = "error")
  => /\ ~hasPlugin(last.arg)
     /\ OwnedBy(last.arg) = {}

(* ------------------- connection ids (SpecIds) --------------------------- *)
\* SpecIds: node ids that contain '-', Connections created at the same and at
\* different readings of the clock
MaxNow == 2

\* the node ids 'A' and 'A-A'
DashedIds == {<<"A">>, <<"A", "A">>}

RegisterNodeDashed == RegisterNodeWith(DashedIds \ RegisteredIds, {BothDots})

ConnectDashed == ConnectWith(RegisteredIds, {<<"right", "left">>, <<NoDot, NoDot>>}, {TRUE})

\* Date.now() reads a later millisecond
ClockTick ==
  /\ now < MaxNow
  /\ now' = now + 1
  /\ Idle("tick", now, 0)
  /\ UNCHANGED <<nodes, connections, hooks, plugins, hookUnsubscribers>>

NextIds ==
  \/ RegisterNodeDashed
  \/ ConnectDashed
  \/ Disconnect
  \/ ClockTick

SpecIds == Init /\ [][NextIds]_vars

\* C37: no two Connections that coexist in the engine have the same id, whatever
\* the node ids and the creation times.
C37_ConnectionIdsDiffer ==
  \A i \in 1..Len(connections), j \in 1..Len(connections) :
    i # j => connections[i].id # connections[j].id

(* ------------------- HistoryPlugin: undo and redo (SpecHistory) --------- *)
\* SpecHistory: HistoryPlugin installed with the option maxHistory: MaxHistory,
\* connects and disconnects it records, undo() and redo()
MaxHistory == 2

HistoryIndex == FirstIndex({k \in 1..Len(plugins) : plugins[k].name = "HistoryPlugin"})

\* what the afterConnect / afterDisconnect callbacks keep of a Connection
HistoryData(conn) ==
  [from |-> conn.fromId, to |-> conn.toId, fromDot |-> conn.fromDot, toDot |-> conn.toDot]

\* the callback of HistoryPlugin on hook h ran during the operation
historyCallbackRan(trace, h) ==
  \E k \in 1..Len(trace) :
    trace[k].k = "cb" /\ trace[k].h = h /\ trace[k].owner = "HistoryPlugin"

\* the body of both callbacks (isUndoRedo is false outside undo and redo):
\* push the action, empty the redo stack, drop the oldest entry over maxHistory
historyPush(ps, action) ==
  LET pushed == Append(ps[HistoryIndex].history, action)
  IN [ps EXCEPT ![HistoryIndex].history = IF Len(pushed) > MaxHistory THEN Tail(pushed) ELSE pushed,
                ![HistoryIndex].redoStack = <<>>]

\* Connector.emit of 'connect:request' / 'disconnect:request' through the plugin
\* context: the engine registers no listener for either event
emitRequest(W, event, data) == W

\* undo: the Connection a recorded connect is looked up by
undoTarget(cs, data) ==
  FirstIndex({k \in 1..Len(cs) : HistoryData(cs[k]) = data})

\* redo of a recorded disconnect looks the Connection up by its nodes only
redoTarget(cs, data) ==
  FirstIndex({k \in 1..Len(cs) : cs[k].fromId = data.from /\ cs[k].toId = data.to})

\* HistoryPlugin.undo, the engine it leaves
undo(W, action) ==
  IF action.type = "connect"
  THEN IF undoTarget(W.conns, action.data) # 0
       THEN emitRequest(W, "disconnect:request", W.conns[undoTarget(W.conns, action.data)].id)
       ELSE W
  ELSE emitRequest(W, "connect:request", action.data)

\* HistoryPlugin.redo, the engine it leaves
redo(W, action) ==
  IF action.type = "connect"
  THEN emitRequest(W, "connect:request", action.data)
  ELSE IF redoTarget(W.conns, action.data) # 0
       THEN emitRequest(W, "disconnect:request", W.conns[redoTarget(W.conns, action.data)].id)
       ELSE W

\* the end of an operation that may have run a callback of HistoryPlugin
CommitRecorded(W, ps, op, arg, ret) ==
  /\ Len(W.nodes) <= MaxNodes
  /\ Len(W.conns) <= MaxConns
  /\ nodes' = CanonNodes(W)
  /\ connections' = CanonConns(W)
  /\ plugins' = ps
  /\ last' = [op |-> op, arg |-> arg, ret |-> ret, trace |-> W.trace, warnings |-> <<>>]
  /\ UNCHANGED <<hooks, hookUnsubscribers, now, ui>>

UseHistory == UseWith({"HistoryPlugin"})

ConnectRecorded ==
  \E f \in RegisteredIds, t \in RegisteredIds, d \in AutoOrCrossed :
    \E r \in {connect(W0, f, t, d[1], d[2], FALSE)} :
      CommitRecorded(r.w,
                     IF r.ret # <<>> /\ historyCallbackRan(r.w.trace, "afterConnect")
                     THEN historyPush(plugins, [type |-> "connect",
                                                data |-> HistoryData(r.w.conns[Len(r.w.conns)])])
                     ELSE plugins,
                     "connect", <<f, t>>, r.ret)

DisconnectRecorded ==
  \E i \in 1..Len(connections) :
    \E W \in {disconnectOne(W0, connections[i].id, FALSE)} :
      CommitRecorded(W,
                     IF historyCallbackRan(W.trace, "afterDisconnect")
                     THEN historyPush(plugins, [type |-> "disconnect",
                                                data |-> HistoryData(connections[i])])
                     ELSE plugins,
                     "disconnect", connections[i].id, <<>>)

\* connector.getPlugin('HistoryPlugin').undo()
Undo ==
  /\ HistoryIndex # 0
  /\ LET stack == plugins[HistoryIndex].history
     IN IF stack = <<>>
        THEN /\ Idle("undo", <<>>, FALSE)
             /\ UNCHANGED <<nodes, connections, hooks, plugins, hookUnsubscribers, now>>
        ELSE \E action \in {stack[Len(stack)]} :
               CommitRecorded(undo(W0, action),
                              [plugins EXCEPT ![HistoryIndex].history = SubSeq(stack, 1, Len(stack) - 1),
                                              ![HistoryIndex].redoStack = Append(@, action)],
                              "undo", action, TRUE)

\* connector.getPlugin('HistoryPlugin').redo()
Redo ==
  /\ HistoryIndex # 0
  /\ LET stack == plugins[HistoryIndex].redoStack
     IN IF stack = <<>>
        THEN /\ Idle("redo", <<>>, FALSE)
             /\ UNCHANGED <<nodes, connections, hooks, plugins, hookUnsubscribers, now>>
        ELSE \E action \in {stack[Len(stack)]} :
               CommitRecorded(redo(W0, action),
                              [plugins EXCEPT ![HistoryIndex].redoStack = SubSeq(stack, 1, Len(stack) - 1),
                                              ![HistoryIndex].history = Append(@, action)],
                              "redo", action, TRUE)

NextHistory ==
  \/ RegisterNode
  \/ UseHistory
  \/ ConnectRecorded
  \/ DisconnectRecorded
  \/ Undo
  \/ Redo

SpecHistory == Init /\ [][NextHistory]_vars

\* C40: undo() after a recorded connect removes that Connection from the
\* engine and undo() after a recorded disconnect recreates it.
C40_UndoRevertsTheEngine ==
  (last.op = "undo" /\ last.ret = TRUE)
  => IF last.arg.type = "connect"
     THEN \A i \in 1..Len(connections) : HistoryData(connections[i]) # last.arg.data
     ELSE \E i \in 1..Len(connections) : HistoryData(connections[i]) = last.arg.data

====
